---- MODULE Spec2Model ----
(***************************************************************************)
(* GoBuddy plan lifecycle: the booking state machine with idempotency.     *)
(*                                                                         *)
(* The store is PostgreSQL reached through query(), one pool.query per     *)
(* call with no BEGIN/COMMIT anywhere in the booking services, so every    *)
(* store call is its own committed step and requests interleave between    *)
(* store calls.  A request is a process whose pc names the next store or   *)
(* adapter call of the handler it runs.                                    *)
(***************************************************************************)
EXTENDS Integers, Sequences, FiniteSets, TLC

\* ---------------------------------------------------------------- bounds
MaxBookings == 2    \* booking rows that can be inserted (uuid supply)
MaxKeys == 2        \* distinct idempotency keys callers use
MaxProcs == 2       \* requests in flight at once
MaxOps == 3         \* requests started in one behaviour
MaxExt == 1         \* distinct booking ids the provider hands out
MaxOptions == 1     \* distinct provider options callers book

Procs == 1..MaxProcs
Keys == 1..MaxKeys
BookingIds == 1..MaxBookings
ExtIds == 1..MaxExt

\* ---------------------------------------------------------------- types
BookingStatus == {"pending", "confirmed", "failed", "canceled", "refunded"}

\* bookingService.createBooking stores the literal 'pending' as the
\* external_booking_id until the provider answers; 0 stands for that literal,
\* the provider's own ids are 1..MaxExt.
PlaceholderExt == 0

ProviderIds == {"stub-activity", "unknown"}

\* Error classes a handler can end with.  "Error" is the bare JS Error.
ErrorKinds == {"ValidationError", "NotFoundError", "ExternalServiceError",
               "Error", "StoreError"}

\* error.message of each error class, as it lands in a history row's reason.
AdapterErrorText == "Simulated booking failure"
Message(kind) ==
    CASE kind = "ExternalServiceError" -> AdapterErrorText
      [] kind = "ValidationError" -> "Invalid state transition"
      [] kind = "NotFoundError" -> "not found"
      [] kind = "StoreError" -> "query failed"
      [] OTHER -> "error"

VARIABLES
    bookings,               \* table bookings: id -> row
    booking_state_history,  \* table booking_state_history, in insertion order
    booking_idempotency,    \* table booking_idempotency: key -> booking id
    admin_audit_log,        \* rows written by adminService.logAdminAction
    adapterCreateCalls,     \* per booking: provider.createBooking invocations,
                            \* by the handler that made them
    adapterCancelCalls,     \* per booking: provider.cancelBooking invocations
    req,                    \* the requests (one per slot): handler, pc, locals
    opsStarted,             \* requests started so far
    providers               \* ProviderRegistry.providers: the ids that have an adapter

VARIABLES
    itineraries,            \* table itineraries, the trip's row: its version (0: no row)
    itinerary_items,        \* table itinerary_items of the trip: id -> row
    itinerary_versions,     \* table itinerary_versions of the trip, in insertion order
    event_signals,          \* table event_signals: id -> row
    replan_triggers,        \* table replan_triggers: id -> row
    replan_proposals,       \* table replan_proposals: id -> row
    replan_applications,    \* table replan_applications: id -> row
    uuids,                  \* uuidv4() values drawn so far for itinerary items
    now,                    \* the wall clock, in minutes
    ireq                    \* the itinerary requests (one per slot): handler, pc, locals

\* The itinerary, event and replan tables, and everything the itinerary
\* handlers can change.
tables == <<itineraries, itinerary_items, itinerary_versions, event_signals,
            replan_triggers, replan_proposals, replan_applications>>
ivars == <<tables, uuids, now, ireq>>

\* What the booking handlers can change.
bvars == <<bookings, booking_state_history, booking_idempotency, admin_audit_log,
           adapterCreateCalls, adapterCancelCalls, req, opsStarted>>

vars == <<bookings, booking_state_history, booking_idempotency, admin_audit_log,
          adapterCreateCalls, adapterCancelCalls, req, opsStarted, providers, ivars>>

stores == <<bookings, booking_state_history, booking_idempotency, admin_audit_log>>

\* ---------------------------------------------------------------- helpers

\* BookingService.validateStateTransition: the allowed targets of each status.
validTransitionsNoTerminal ==
    [s \in BookingStatus \cup {"null"} |->
        CASE s = "null" -> {"pending"}
          [] s = "pending" -> {"confirmed", "failed"}
          [] s = "confirmed" -> {"canceled", "refunded"}
          [] s = "failed" -> {"pending"}
          [] s = "canceled" -> {"refunded"}
          [] s = "refunded" -> {"pending"}]

validTransitions ==
    [s \in BookingStatus \cup {"null"} |->
        CASE s = "null" -> {"pending"}
          [] s = "pending" -> {"confirmed", "failed"}
          [] s = "confirmed" -> {"canceled", "refunded"}
          [] s = "failed" -> {"pending"}
          [] s = "canceled" -> {"refunded"}
          [] s = "refunded" -> {}]

\* TRUE when validateStateTransition returns, FALSE when it throws.
validateStateTransition(fromStatus, toStatus) ==
    toStatus \in validTransitions[fromStatus]

\* The rows of one booking, in insertion order.
RECURSIVE RowsOf(_, _)
RowsOf(h, b) ==
    IF h = <<>> THEN <<>>
    ELSE IF Head(h).booking_id = b THEN <<Head(h)>> \o RowsOf(Tail(h), b)
    ELSE RowsOf(Tail(h), b)

getBookingStateHistory(b) == RowsOf(booking_state_history, b)

Last(s) == s[Len(s)]

\* A request slot with no handler running.
IdleReq ==
    [op |-> "none", pc |-> "idle", ctx |-> "none",
     key |-> 0, provider_id |-> "none", provider_option_id |-> 0, bid |-> 0,
     from |-> "null", to |-> "null", reason |-> "", ext |-> PlaceholderExt,
     bext |-> PlaceholderExt,
     err |-> "none", adapter |-> "none",
     ev_type |-> "none", ev_ext |-> PlaceholderExt,
     res |-> "none", kind |-> "none", resBid |-> 0,
     replay |-> FALSE, preRows |-> 0, preHist |-> 0, preStatus |-> "null"]

\* What the handler leaves behind when it returns or throws to the route.
Finished(r, res, kind, b) ==
    [r EXCEPT !.pc = "done", !.ctx = "none", !.from = "null", !.to = "null",
              !.reason = "", !.ext = PlaceholderExt, !.bext = PlaceholderExt,
              !.err = "none", !.provider_id = "none", !.provider_option_id = 0,
              !.ev_type = "none", !.ev_ext = PlaceholderExt,
              !.res = res, !.kind = kind, !.resBid = b]

Returned(r) == Finished(r, "ok", "none", r.bid)

\* An error raised at the request's current position: the enclosing try of
\* createBooking / retryBooking marks the booking failed with the error's
\* message and rethrows; cancelBooking's try wraps it in ExternalServiceError;
\* everywhere else it goes to the route.
Thrown(r, kind) ==
    IF r.ctx \in {"create_try", "retry_try"}
    THEN [r EXCEPT !.pc = "u_read",
                   !.ctx = IF r.ctx = "create_try" THEN "create_catch" ELSE "retry_catch",
                   !.to = "failed", !.reason = Message(kind),
                   !.ext = PlaceholderExt, !.err = kind]
    ELSE IF r.ctx = "cancel_try"
    THEN Finished(r, "err", "ExternalServiceError", 0)
    ELSE Finished(r, "err", kind, 0)

Quiescent == \A q \in Procs : req[q].pc \in {"idle", "done"}
\* A new request takes the lowest free slot (slots are interchangeable).
Free(p) ==
    /\ req[p].pc \in {"idle", "done"}
    /\ \A q \in Procs : q < p => req[q].pc \notin {"idle", "done"}
    /\ opsStarted < MaxOps

Begin(op, b) == [IdleReq EXCEPT !.op = op, !.bid = b]

\* ---------------------------------------------------------------- itinerary, events, replan: the data

MaxItemIds == 6     \* uuids available for itinerary items
MaxSnapshots == 4   \* rows itinerary_versions can take
MaxEvents == 1      \* event signals ingested
MaxProposals == 3   \* rows replan_proposals can take
MaxEdits == 3       \* editor operations that leave a snapshot
MaxReplanEdits == 2 \* the same, on a trip that is replanned
MaxTicks == 2       \* clock advances


\* Times of day are "HH:mm" strings in the program; here the minute of the day.
\* The strings the program writes are zero padded, so comparing them is
\* comparing the minutes.
MinutesPerDay == 1440
NoTime == 0 - 1

DEFAULT_BUFFER_MINUTES == 15
DEFAULT_TRAVEL_TIME_PLACEHOLDER == 20
ROLLBACK_WINDOW_HOURS == 24
\* One clock advance takes the trip to the end of a rollback window.
TickMinutes == ROLLBACK_WINDOW_HOURS * 60
MovedItemDuration == 120

\* The window findAvailableTimeSlot uses whatever the trip's preferences say.
EngineWindow == [start |-> 540, end |-> 1200]

\* The trip's preferences row: the trip's dates as days since the clock's day
\* 0, and the daily time window.
preferences ==
    [dates |-> [start |-> 1, end |-> 3],
     daily_time_window |-> [start |-> 600, end |-> 1080]]

\* The POIs callers name: duration, and opening hours by day of the trip.
AlwaysOpen == [closed |-> FALSE, open |-> NoTime, close |-> NoTime]
PoiIds == 1..6
IndoorPoi == 4
pois ==
    [q \in PoiIds |->
        CASE q = 1 -> [avg_duration_minutes |-> 60, price |-> 10,
                       hours |-> [n \in 1..7 |-> AlwaysOpen]]
          [] q = 2 -> [avg_duration_minutes |-> 90, price |-> 20,
                       hours |-> [n \in 1..7 |->
                                    [closed |-> FALSE, open |-> 660, close |-> 1020]]]
          [] q = 3 -> [avg_duration_minutes |-> 120, price |-> 30,
                       hours |-> [n \in 1..7 |-> AlwaysOpen]]
          [] q = 4 -> [avg_duration_minutes |-> 150, price |-> 20,
                       hours |-> [n \in 1..7 |-> AlwaysOpen]]
          [] q = 5 -> [avg_duration_minutes |-> 500, price |-> 0,
                       hours |-> [n \in 1..7 |-> AlwaysOpen]]
          [] OTHER -> [avg_duration_minutes |-> 90, price |-> 0,
                       hours |-> [n \in 1..7 |->
                                    IF n = 3 THEN [closed |-> TRUE, open |-> NoTime,
                                                   close |-> NoTime]
                                    ELSE [closed |-> FALSE, open |-> 600, close |-> 700]]]]

\* No itinerary row (null), and a proposal's changes when it has none.
NoItinerary == [version |-> 0, items |-> <<>>]

NoChanges == [replaced_items |-> <<>>, moved_items |-> <<>>,
              removed_items |-> <<>>, added_items |-> <<>>]

\* A request slot at rest: the handler's arguments, then its locals.
IdleIReq ==
    [op |-> "none", pc |-> "idle", ctx |-> "plain", ret |-> "done",
     res |-> "none", err |-> "none",
     item |-> 0, proposal |-> 0, app |-> 0, target |-> 0, trigger |-> 0,
     day |-> 0, ids |-> <<>>, t |-> NoTime, pinned |-> FALSE,
     poi |-> 0, poi_ids |-> <<>>, mode |-> "full", preserve |-> FALSE,
     alt |-> 0, max |-> 0, returned |-> <<>>, etype |-> "none", severity |-> "none", condition |-> "none",
     affected |-> <<>>, tie |-> "first", held |-> TRUE, checked |-> FALSE, fail |-> 0 - 1,
     change_type |-> "none",
     loaded |-> NoItinerary, snap |-> NoItinerary,
     prop |-> [trigger_id |-> 0, changes |-> NoChanges],
     list |-> <<>>, i |-> 0, cur |-> NoTime, days |-> <<>>, undo |-> <<>>]

ItinInit ==
    /\ itineraries = 0
    /\ itinerary_items = <<>>
    /\ itinerary_versions = <<>>
    /\ event_signals = <<>>
    /\ replan_triggers = <<>>
    /\ replan_proposals = <<>>
    /\ replan_applications = <<>>
    /\ uuids = [item |-> 0, proposal |-> 0]
    /\ now = 0
    /\ ireq = [p \in Procs |-> IdleIReq]

\* ---------------------------------------------------------------- initial state
Init ==
    /\ bookings = <<>>
    /\ booking_state_history = <<>>
    /\ booking_idempotency = <<>>
    /\ admin_audit_log = <<>>
    /\ adapterCreateCalls =
          [b \in BookingIds |->
              [create |-> 0, retry |-> 0,
               provider_item_id |-> [create |-> {}, retry |-> {}]]]
    /\ adapterCancelCalls = [b \in BookingIds |-> 0]
    /\ req = [p \in Procs |-> IdleReq]
    /\ opsStarted = 0
    /\ providers = {"stub-activity"}
    /\ ItinInit

\* ---------------------------------------------------------------- store steps shared by the handlers

\* A fresh uuid for a booking row.
NewBookingId == Cardinality(DOMAIN bookings) + 1

\* Rows still to be inserted by createBooking requests already past their lookup.
InsertsPending ==
    Cardinality({q \in Procs : req[q].pc \in {"svc_lookup", "svc_insert"}})

addStateHistory(b, fromStatus, toStatus, reason) ==
    Append(booking_state_history,
           [booking_id |-> b, from_status |-> fromStatus,
            to_status |-> toStatus, reason |-> reason])

\* BookingService.updateBookingStatus, first half: getBookingById, then
\* validateStateTransition on the status just read.
UpdateRead(p) ==
    /\ req[p].pc = "u_read"
    /\ UNCHANGED <<ivars, providers>>
    /\ req' = [req EXCEPT ![p] =
          IF req[p].bid \notin DOMAIN bookings
          THEN Thrown(req[p], "NotFoundError")
          ELSE IF ~validateStateTransition(bookings[req[p].bid].status, req[p].to)
          THEN Thrown(req[p], "ValidationError")
          ELSE [req[p] EXCEPT !.from = bookings[req[p].bid].status, !.pc = "u_update"]]
    /\ UNCHANGED <<stores, adapterCreateCalls, adapterCancelCalls, opsStarted>>

\* UPDATE bookings SET status = $1 [, external_booking_id = ...] WHERE id = ...
UpdateWrite(p) ==
    /\ req[p].pc = "u_update"
    /\ bookings' = [bookings EXCEPT ![req[p].bid] =
          [@ EXCEPT !.status = req[p].to,
                    !.external_booking_id =
                        IF req[p].ext # PlaceholderExt THEN req[p].ext ELSE @]]
    /\ UNCHANGED <<ivars, providers>>
    /\ req' = [req EXCEPT ![p].pc = "u_hist"]
    /\ UNCHANGED <<booking_state_history, booking_idempotency, admin_audit_log,
                   adapterCreateCalls, adapterCancelCalls, opsStarted>>

\* addStateHistory(bookingId, booking.status, newStatus, reason): the from is
\* the status read in UpdateRead.
UpdateHistory(p) ==
    /\ req[p].pc = "u_hist"
    /\ booking_state_history' =
          addStateHistory(req[p].bid, req[p].from, req[p].to, req[p].reason)
    /\ UNCHANGED <<ivars, providers>>
    /\ req' = [req EXCEPT ![p].pc = "u_get"]
    /\ UNCHANGED <<bookings, booking_idempotency, admin_audit_log,
                   adapterCreateCalls, adapterCancelCalls, opsStarted>>

\* The closing getBookingById of updateBookingStatus, and the return to the
\* caller: the catch blocks rethrow the error they caught.
UpdateReturn(p) ==
    /\ req[p].pc = "u_get"
    /\ UNCHANGED <<ivars, providers>>
    /\ req' = [req EXCEPT ![p] =
          CASE req[p].ctx = "create_try" -> [req[p] EXCEPT !.pc = "c_get"]
            [] req[p].ctx = "retry_pre" -> [req[p] EXCEPT !.pc = "r_provider", !.ctx = "retry_try"]
            [] req[p].ctx = "retry_try" -> [req[p] EXCEPT !.pc = "r_get"]
            [] req[p].ctx = "cancel_try" -> [req[p] EXCEPT !.pc = "x_get"]
            [] req[p].ctx = "override" -> [req[p] EXCEPT !.pc = "o_log"]
            [] OTHER -> Finished(req[p], "err", req[p].err, 0)]
    /\ UNCHANGED <<stores, adapterCreateCalls, adapterCancelCalls, opsStarted>>

\* ---------------------------------------------------------------- createBooking

\* BookingOrchestratorService.createBooking up to the registry lookup.
StartCreate(p, k, prov, opt) ==
    /\ Free(p)
    /\ k \notin DOMAIN booking_idempotency
          => Cardinality(DOMAIN bookings) + InsertsPending < MaxBookings
    /\ UNCHANGED <<ivars, providers>>
    /\ req' = [req EXCEPT ![p] =
          IF prov \notin providers
          THEN Finished([Begin("create", 0) EXCEPT !.key = k, !.provider_id = prov],
                        "err", "NotFoundError", 0)
          ELSE [Begin("create", 0) EXCEPT !.key = k, !.provider_id = prov,
                    !.provider_option_id = opt,
                    !.pc = "svc_lookup", !.ctx = "create_pre",
                    \* ghost fields: what the tables held when the request started
                    !.replay = k \in DOMAIN booking_idempotency,
                    !.preRows = Cardinality(DOMAIN bookings),
                    !.preHist = Len(booking_state_history),
                    !.preStatus = IF k \in DOMAIN booking_idempotency
                                  THEN bookings[booking_idempotency[k]].status
                                  ELSE "null"]]
    /\ opsStarted' = opsStarted + 1
    /\ UNCHANGED <<stores, adapterCreateCalls, adapterCancelCalls>>

\* BookingService.createBooking: getBookingByIdempotencyKey; a hit returns the
\* existing booking to the orchestrator, which goes on to the provider call.
ServiceLookup(p) ==
    /\ req[p].pc = "svc_lookup"
    /\ UNCHANGED <<ivars, providers>>
    /\ req' = [req EXCEPT ![p] =
          IF req[p].key \in DOMAIN booking_idempotency
          THEN [req[p] EXCEPT !.bid = booking_idempotency[req[p].key],
                              !.pc = "c_provider", !.ctx = "create_try"]
          ELSE IF ~validateStateTransition("null", "pending")
          THEN Thrown(req[p], "ValidationError")
          ELSE [req[p] EXCEPT !.pc = "svc_insert"]]
    /\ UNCHANGED <<stores, adapterCreateCalls, adapterCancelCalls, opsStarted>>

\* INSERT INTO bookings ... status 'pending', external_booking_id 'pending'.
\* created_key is a ghost column: the key of the request that inserted the row.
ServiceInsert(p) ==
    /\ req[p].pc = "svc_insert"
    /\ NewBookingId \in BookingIds
    /\ bookings' = bookings @@ (NewBookingId :>
          [status |-> "pending", external_booking_id |-> PlaceholderExt,
           provider_id |-> req[p].provider_id, created_key |-> req[p].key])
    /\ UNCHANGED <<ivars, providers>>
    /\ req' = [req EXCEPT ![p].bid = NewBookingId, ![p].pc = "svc_hist"]
    /\ UNCHANGED <<booking_state_history, booking_idempotency, admin_audit_log,
                   adapterCreateCalls, adapterCancelCalls, opsStarted>>

\* addStateHistory(bookingId, null, 'pending', 'Booking created').
ServiceHistory(p) ==
    /\ req[p].pc = "svc_hist"
    /\ booking_state_history' =
          addStateHistory(req[p].bid, "null", "pending", "Booking created")
    /\ UNCHANGED <<ivars, providers>>
    /\ req' = [req EXCEPT ![p].pc = "svc_idem"]
    /\ UNCHANGED <<bookings, booking_idempotency, admin_audit_log,
                   adapterCreateCalls, adapterCancelCalls, opsStarted>>

\* INSERT INTO booking_idempotency: idempotency_key is the primary key, so a
\* second insert of the same key is rejected by the store.
ServiceIdempotency(p) ==
    /\ req[p].pc = "svc_idem"
    /\ UNCHANGED <<ivars, providers>>
    /\ IF req[p].key \in DOMAIN booking_idempotency
       THEN /\ req' = [req EXCEPT ![p] = Thrown(req[p], "StoreError")]
            /\ UNCHANGED booking_idempotency
       ELSE /\ booking_idempotency' =
                  booking_idempotency @@ (req[p].key :> req[p].bid)
            /\ req' = [req EXCEPT ![p].pc = "svc_get"]
    /\ UNCHANGED <<bookings, booking_state_history, admin_audit_log,
                   adapterCreateCalls, adapterCancelCalls, opsStarted>>

\* return await this.getBookingById(bookingId), back in the orchestrator.
ServiceReturn(p) ==
    /\ req[p].pc = "svc_get"
    /\ UNCHANGED <<ivars, providers>>
    /\ req' = [req EXCEPT ![p].pc = "c_provider", ![p].ctx = "create_try"]
    /\ UNCHANGED <<stores, adapterCreateCalls, adapterCancelCalls, opsStarted>>

\* provider.createBooking(...) inside the try: it answers confirmed or pending
\* with its booking id e, or throws.
CreateCallProvider(p, outcome, e) ==
    /\ req[p].pc = "c_provider"
    /\ adapterCreateCalls' =
          [adapterCreateCalls EXCEPT
              ![req[p].bid].create = @ + 1,
              ![req[p].bid].provider_item_id.create = @ \cup {req[p].provider_option_id}]
    /\ UNCHANGED <<ivars, providers>>
    /\ req' = [req EXCEPT ![p] =
          IF outcome = "throw"
          THEN Thrown([req[p] EXCEPT !.adapter = outcome], "ExternalServiceError")
          ELSE [req[p] EXCEPT !.adapter = outcome, !.pc = "u_read",
                    !.to = IF outcome = "confirmed" THEN "confirmed" ELSE "pending",
                    !.reason = "Provider booking created", !.ext = e]]
    /\ UNCHANGED <<stores, adapterCancelCalls, opsStarted>>

\* return await bookingService.getBookingById(booking.id), still inside the try.
CreateReturn(p) ==
    /\ req[p].pc = "c_get"
    /\ UNCHANGED <<ivars, providers>>
    /\ req' = [req EXCEPT ![p] = Returned(req[p])]
    /\ UNCHANGED <<stores, adapterCreateCalls, adapterCancelCalls, opsStarted>>

\* ---------------------------------------------------------------- retryBooking

\* BookingOrchestratorService.retryBooking: getBookingById and the status
\* test, a bare Error when the booking is not failed; then the request is
\* rebuilt from the row and updateBookingStatus(bookingId, 'pending') begins.
StartRetry(p, b) ==
    /\ Free(p)
    /\ UNCHANGED <<ivars, providers>>
    /\ req' = [req EXCEPT ![p] =
          IF b \notin DOMAIN bookings
          THEN Finished(Begin("retry", b), "err", "NotFoundError", 0)
          ELSE IF bookings[b].status # "failed"
          THEN Finished(Begin("retry", b), "err", "Error", 0)
          ELSE [Begin("retry", b) EXCEPT
                    !.provider_id = bookings[b].provider_id,
                    !.bext = bookings[b].external_booking_id,
                    !.pc = "u_read", !.ctx = "retry_pre",
                    !.to = "pending", !.reason = "Retrying booking"]]
    /\ opsStarted' = opsStarted + 1
    /\ UNCHANGED <<stores, adapterCreateCalls, adapterCancelCalls>>

\* Inside the try: the registry lookup, then provider.createBooking.
RetryCallProvider(p, outcome, e) ==
    /\ req[p].pc = "r_provider"
    /\ UNCHANGED <<ivars, providers>>
    /\ IF req[p].provider_id \notin providers
       THEN /\ req' = [req EXCEPT ![p] = Thrown(req[p], "NotFoundError")]
            /\ UNCHANGED adapterCreateCalls
       ELSE /\ adapterCreateCalls' =
                  [adapterCreateCalls EXCEPT
                      ![req[p].bid].retry = @ + 1,
                      ![req[p].bid].provider_item_id.retry = @ \cup {req[p].bext}]
            /\ req' = [req EXCEPT ![p] =
                  IF outcome = "throw"
                  THEN Thrown([req[p] EXCEPT !.adapter = outcome], "ExternalServiceError")
                  ELSE [req[p] EXCEPT !.adapter = outcome, !.pc = "u_read",
                            !.to = IF outcome = "confirmed" THEN "confirmed" ELSE "pending",
                            !.reason = "Retry successful", !.ext = e]]
    /\ UNCHANGED <<stores, adapterCancelCalls, opsStarted>>

\* return await bookingService.getBookingById(bookingId), inside the try.
RetryReturn(p) ==
    /\ req[p].pc = "r_get"
    /\ UNCHANGED <<ivars, providers>>
    /\ req' = [req EXCEPT ![p] = Returned(req[p])]
    /\ UNCHANGED <<stores, adapterCreateCalls, adapterCancelCalls, opsStarted>>

\* ---------------------------------------------------------------- cancelBooking

\* BookingOrchestratorService.cancelBooking: getBookingById and the status
\* test, a bare Error when the booking is not confirmed.
StartCancel(p, b) ==
    /\ Free(p)
    /\ UNCHANGED <<ivars, providers>>
    /\ req' = [req EXCEPT ![p] =
          IF b \notin DOMAIN bookings
          THEN Finished(Begin("cancel", b), "err", "NotFoundError", 0)
          ELSE IF bookings[b].status # "confirmed"
          THEN Finished(Begin("cancel", b), "err", "Error", 0)
          ELSE [Begin("cancel", b) EXCEPT
                    !.provider_id = bookings[b].provider_id,
                    !.bext = bookings[b].external_booking_id,
                    !.pc = "x_provider", !.ctx = "cancel_try"]]
    /\ opsStarted' = opsStarted + 1
    /\ UNCHANGED <<stores, adapterCreateCalls, adapterCancelCalls>>

\* Inside the try: provider.cancelBooking(external_booking_id) when the
\* provider is registered, then updateBookingStatus(bookingId, 'canceled').
CancelCallProvider(p, outcome) ==
    /\ req[p].pc = "x_provider"
    /\ UNCHANGED <<ivars, providers>>
    /\ IF req[p].provider_id \notin providers
       THEN /\ req' = [req EXCEPT ![p] =
                  [req[p] EXCEPT !.pc = "u_read", !.to = "canceled",
                                 !.reason = "Booking canceled by user"]]
            /\ UNCHANGED adapterCancelCalls
       ELSE /\ adapterCancelCalls' = [adapterCancelCalls EXCEPT ![req[p].bid] = @ + 1]
            /\ req' = [req EXCEPT ![p] =
                  IF outcome = "throw"
                  THEN Thrown([req[p] EXCEPT !.adapter = outcome], "ExternalServiceError")
                  ELSE [req[p] EXCEPT !.adapter = outcome, !.pc = "u_read",
                            !.to = "canceled", !.reason = "Booking canceled by user"]]
    /\ UNCHANGED <<stores, adapterCreateCalls, opsStarted>>

\* return await bookingService.getBookingById(bookingId), inside the try.
CancelReturn(p) ==
    /\ req[p].pc = "x_get"
    /\ UNCHANGED <<ivars, providers>>
    /\ req' = [req EXCEPT ![p] = Returned(req[p])]
    /\ UNCHANGED <<stores, adapterCreateCalls, adapterCancelCalls, opsStarted>>

\* ---------------------------------------------------------------- admin override

\* BookingTroubleshootingService.overrideBookingStatus: straight into
\* updateBookingStatus with the admin's target status.
StartOverride(p, b, s) ==
    /\ Free(p)
    /\ UNCHANGED <<ivars, providers>>
    /\ req' = [req EXCEPT ![p] =
          [Begin("override", b) EXCEPT !.pc = "u_read", !.ctx = "override",
               !.to = s, !.reason = "Manual override by admin"]]
    /\ opsStarted' = opsStarted + 1
    /\ UNCHANGED <<stores, adapterCreateCalls, adapterCancelCalls>>

\* adminService.logAdminAction(adminId, 'booking_status_override', ...): the
\* from_status it records is the status of the booking updateBookingStatus
\* returned, which is already the new one.
OverrideLog(p) ==
    /\ req[p].pc = "o_log"
    /\ admin_audit_log' = Append(admin_audit_log,
          [action |-> "booking_status_override", resource_id |-> req[p].bid,
           from_status |-> bookings[req[p].bid].status, to_status |-> req[p].to])
    /\ UNCHANGED <<ivars, providers>>
    /\ req' = [req EXCEPT ![p] = Returned(req[p])]
    /\ UNCHANGED <<bookings, booking_state_history, booking_idempotency,
                   adapterCreateCalls, adapterCancelCalls, opsStarted>>

\* ---------------------------------------------------------------- processWebhook

\* BookingOrchestratorService.processWebhook: the registry lookup and
\* provider.handleWebhook(payload), which parses the payload into the event
\* (ev, e) or throws.
StartWebhook(p, prov, ev, e, parsed) ==
    /\ Free(p)
    /\ UNCHANGED <<ivars, providers>>
    /\ req' = [req EXCEPT ![p] =
          IF prov \notin providers
          THEN Finished([Begin("webhook", 0) EXCEPT !.provider_id = prov],
                        "err", "NotFoundError", 0)
          ELSE IF ~parsed
          THEN Finished([Begin("webhook", 0) EXCEPT !.provider_id = prov],
                        "err", "ExternalServiceError", 0)
          ELSE [Begin("webhook", 0) EXCEPT !.provider_id = prov,
                    !.ev_type = ev, !.ev_ext = e,
                    !.pc = "w_query", !.ctx = "webhook"]]
    /\ opsStarted' = opsStarted + 1
    /\ UNCHANGED <<stores, adapterCreateCalls, adapterCancelCalls>>

\* bookingService.getBookingsByTripId(''): the result is not used, the event
\* is logged and the handler returns.
WebhookQuery(p) ==
    /\ req[p].pc = "w_query"
    /\ UNCHANGED <<ivars, providers>>
    /\ req' = [req EXCEPT ![p] = Finished(req[p], "ok", "none", 0)]
    /\ UNCHANGED <<stores, adapterCreateCalls, adapterCancelCalls, opsStarted>>

\* ---------------------------------------------------------------- store failures

\* The positions at which a request is about to issue a store call.
StorePcs == {"svc_lookup", "svc_insert", "svc_hist", "svc_idem", "svc_get",
             "u_read", "u_update", "u_hist", "u_get",
             "c_get", "r_get", "x_get", "o_log", "w_query"}

\* query() rethrows whatever pool.query throws: the call has no effect and the
\* error surfaces at the caller's position.
StoreFail(p) ==
    /\ req[p].pc \in StorePcs
    /\ UNCHANGED <<ivars, providers>>
    /\ req' = [req EXCEPT ![p] = Thrown(req[p], "StoreError")]
    /\ UNCHANGED <<stores, adapterCreateCalls, adapterCancelCalls, opsStarted>>

\* ---------------------------------------------------------------- specifications

AdapterOutcomes == {"confirmed", "pending", "throw"}
WebhookEvents == {"booking_confirmed", "booking_canceled",
                  "price_changed", "availability_changed"}

\* One step of whichever handler request p is running.
Step(p) ==
    \/ ServiceLookup(p)
    \/ ServiceInsert(p)
    \/ ServiceHistory(p)
    \/ ServiceIdempotency(p)
    \/ ServiceReturn(p)
    \/ \E o \in AdapterOutcomes, e \in ExtIds : CreateCallProvider(p, o, e)
    \/ CreateReturn(p)
    \/ UpdateRead(p)
    \/ UpdateWrite(p)
    \/ UpdateHistory(p)
    \/ UpdateReturn(p)
    \/ \E o \in AdapterOutcomes, e \in ExtIds : RetryCallProvider(p, o, e)
    \/ RetryReturn(p)
    \/ \E o \in {"ok", "throw"} : CancelCallProvider(p, o)
    \/ CancelReturn(p)
    \/ OverrideLog(p)
    \/ WebhookQuery(p)

\* A new request arriving on slot p.
Start(p) ==
    \* request.provider_option_id: the provider's ids of what it sells are
    \* neither booking ids of the provider nor the literal 'pending'
    \/ \E k \in Keys, prov \in ProviderIds,
          opt \in (MaxExt + 1)..(MaxExt + MaxOptions) : StartCreate(p, k, prov, opt)
    \/ \E b \in BookingIds : StartRetry(p, b)
    \/ \E b \in BookingIds : StartCancel(p, b)
    \/ \E b \in BookingIds, s \in BookingStatus : StartOverride(p, b, s)
    \/ \E prov \in ProviderIds, ev \in WebhookEvents, e \in ExtIds,
          parsed \in BOOLEAN : StartWebhook(p, prov, ev, e, parsed)

\* Requests run one after another and every store call succeeds.
NextSeq ==
    \/ Quiescent /\ Start(1)
    \/ Step(1)

SpecSeq == Init /\ [][NextSeq]_vars

\* Requests run one after another and any store call may fail.
NextFail ==
    \/ Quiescent /\ Start(1)
    \/ Step(1)
    \/ StoreFail(1)

SpecFail == Init /\ [][NextFail]_vars

\* Requests interleave between their store and adapter calls; every store
\* call succeeds.
NextConc ==
    \/ \E p \in Procs : Start(p)
    \/ \E p \in Procs : Step(p)

SpecConc == Init /\ [][NextConc]_vars

\* ProviderRegistry.unregister: this.providers.delete(providerId).
unregister(providerId) ==
    /\ providers' = providers \ {providerId}
    /\ UNCHANGED <<bvars, ivars>>

\* Requests run one after another, every store call succeeds, and between two
\* requests an adapter may be taken out of the registry.
NextRegistry ==
    \/ Quiescent /\ Start(1)
    \/ Step(1)
    \/ Quiescent /\ \E providerId \in providers : unregister(providerId)

SpecRegistry == Init /\ [][NextRegistry]_vars

\* ================================================================ claims

\* The transition graph as the specification draws it.
GraphEdges ==
    {<<"null", "pending">>, <<"pending", "confirmed">>, <<"pending", "failed">>,
     <<"failed", "pending">>, <<"confirmed", "canceled">>,
     <<"confirmed", "refunded">>, <<"canceled", "refunded">>}

\* C1: for every booking, after any sequence of createBooking, retryBooking,
\* cancelBooking and admin overrideBookingStatus calls run one after another,
\* its history rows in insertion order form a path of the graph: the first row
\* is null->pending, every row is an edge, every later row starts where the
\* row before it ended, and no row leaves refunded.
C1_HistoryIsGraphPath ==
    \A b \in DOMAIN bookings :
        LET h == getBookingStateHistory(b) IN
        /\ h # <<>> => h[1].from_status = "null" /\ h[1].to_status = "pending"
        /\ \A i \in 1..Len(h) :
              /\ <<h[i].from_status, h[i].to_status>> \in GraphEdges
              /\ h[i].from_status # "refunded"
              /\ i > 1 => <<h[i-1].to_status, h[i].to_status>> \in GraphEdges

\* C1 witness: a booking driven pending -> confirmed -> ... -> refunded, the
\* last step by an admin override.
C1_Witness ==
    \E b \in DOMAIN bookings :
        LET h == getBookingStateHistory(b) IN
        /\ Len(h) >= 3
        /\ Last(h).to_status = "refunded"
        /\ Last(h).reason = "Manual override by admin"
        /\ Quiescent

\* C2: in every reachable state, store failures included, the to_status of a
\* booking's most recent history row equals the booking's current status.
C2_LastRowIsStatus ==
    \A b \in DOMAIN bookings :
        LET h == getBookingStateHistory(b) IN
        h # <<>> => Last(h).to_status = bookings[b].status

\* C3: a createBooking whose idempotency key an earlier completed call already
\* recorded returns that call's booking, adds no row to bookings or to
\* booking_state_history and leaves the booking's status unchanged.
C3_ReplayReturnsOriginal ==
    \A p \in Procs :
        (req[p].pc = "done" /\ req[p].op = "create" /\ req[p].replay) =>
            /\ req[p].res = "ok"
            /\ req[p].resBid = booking_idempotency[req[p].key]
            /\ Cardinality(DOMAIN bookings) = req[p].preRows
            /\ Len(booking_state_history) = req[p].preHist
            /\ bookings[booking_idempotency[req[p].key]].status = req[p].preStatus

\* C4: when two createBooking requests with the same idempotency key overlap,
\* afterwards exactly one booking row and one idempotency record exist for the
\* key and both requests refer to that booking.
C4_OneBookingPerKey ==
    \A p, q \in Procs :
        (/\ p # q
         /\ req[p].pc = "done" /\ req[q].pc = "done"
         /\ req[p].op = "create" /\ req[q].op = "create"
         /\ req[p].key = req[q].key
         /\ ~req[p].replay /\ ~req[q].replay
         /\ req[p].bid # 0 /\ req[q].bid # 0) =>
            /\ Cardinality({b \in DOMAIN bookings :
                               bookings[b].created_key = req[p].key}) = 1
            /\ req[p].key \in DOMAIN booking_idempotency
            /\ req[p].bid = booking_idempotency[req[p].key]
            /\ req[q].bid = booking_idempotency[req[p].key]

\* C5: creating a booking is all-or-nothing: no reachable state holds a
\* booking row that lacks its null->pending history row or the idempotency
\* record of the key that created it.
C5_CreateAllOrNothing ==
    \A b \in DOMAIN bookings :
        /\ getBookingStateHistory(b) # <<>>
        /\ bookings[b].created_key \in DOMAIN booking_idempotency
        /\ booking_idempotency[bookings[b].created_key] = b

\* C6: cancelBooking on a booking that is not confirmed fails with a
\* Validation error, does not call the provider adapter and leaves the
\* booking's status and history unchanged.
C6_CancelRejected ==
    [][\A b \in DOMAIN bookings :
          (/\ Quiescent
           /\ opsStarted' = opsStarted + 1
           /\ req'[1].op = "cancel" /\ req'[1].bid = b
           /\ bookings[b].status # "confirmed") =>
              /\ req'[1].pc = "done" /\ req'[1].res = "err"
              /\ req'[1].kind = "ValidationError"
              /\ UNCHANGED <<bookings, booking_state_history, adapterCancelCalls>>]_vars

\* C7: after createBooking with a fresh key the booking's final status follows
\* the adapter: confirmed when it answers confirmed; still pending, the call
\* succeeding, when it answers pending; failed, with the adapter's error text
\* as the reason of the pending->failed row, when the adapter call fails.
C7_CreateFollowsAdapter ==
    \A p \in Procs :
        (req[p].pc = "done" /\ req[p].op = "create" /\ ~req[p].replay
           /\ req[p].adapter # "none") =>
            LET b == req[p].bid
                h == getBookingStateHistory(b) IN
            /\ req[p].adapter = "confirmed" =>
                  bookings[b].status = "confirmed" /\ req[p].res = "ok"
            /\ req[p].adapter = "pending" =>
                  bookings[b].status = "pending" /\ req[p].res = "ok"
            /\ req[p].adapter = "throw" =>
                  /\ bookings[b].status = "failed"
                  /\ Last(h).from_status = "pending" /\ Last(h).to_status = "failed"
                  /\ Last(h).reason = AdapterErrorText

\* C8: retryBooking is rejected, with status and history unchanged and no
\* provider call, unless the booking is failed; from failed it appends
\* failed->pending, calls the adapter and leaves the booking confirmed,
\* pending or failed according to the adapter's answer.
C8_RetryFollowsAdapter ==
    [][/\ \A b \in DOMAIN bookings :
            (/\ Quiescent
             /\ opsStarted' = opsStarted + 1
             /\ req'[1].op = "retry" /\ req'[1].bid = b
             /\ bookings[b].status # "failed") =>
                /\ req'[1].pc = "done" /\ req'[1].res = "err"
                /\ UNCHANGED <<bookings, booking_state_history, adapterCreateCalls>>
       /\ (req[1].op = "retry" /\ req[1].pc \notin {"idle", "done"}
             /\ req'[1].pc = "done" /\ req'[1].adapter # "none") =>
                LET b == req[1].bid
                    h == RowsOf(booking_state_history', b) IN
                /\ \E i \in 1..Len(h) :
                      h[i].from_status = "failed" /\ h[i].to_status = "pending"
                        /\ h[i].reason = "Retrying booking"
                /\ adapterCreateCalls'[b].retry >= 1
                /\ bookings'[b].status =
                      CASE req'[1].adapter = "confirmed" -> "confirmed"
                        [] req'[1].adapter = "pending" -> "pending"
                        [] OTHER -> "failed"]_vars

\* C9: after processWebhook handles an event whose provider_booking_id equals
\* a booking's external_booking_id, the booking has moved along the matching
\* edge with a history row appended: booking_confirmed takes pending to
\* confirmed, booking_canceled takes confirmed to canceled.
WebhookTarget(ev, status) ==
    CASE ev = "booking_confirmed" /\ status = "pending" -> "confirmed"
      [] ev = "booking_canceled" /\ status = "confirmed" -> "canceled"
      [] OTHER -> status

C9_WebhookApplied ==
    [][(req[1].op = "webhook" /\ req[1].pc = "w_query"
          /\ req'[1].pc = "done" /\ req'[1].res = "ok") =>
            \A b \in DOMAIN bookings :
                (/\ bookings[b].external_booking_id = req[1].ev_ext
                 /\ WebhookTarget(req[1].ev_type, bookings[b].status) # bookings[b].status) =>
                    /\ bookings'[b].status =
                          WebhookTarget(req[1].ev_type, bookings[b].status)
                    /\ Len(RowsOf(booking_state_history', b)) =
                          Len(RowsOf(booking_state_history, b)) + 1]_vars

\* C10: when status-changing operations on one booking overlap, the outcome is
\* that of some serial order: every history row's from_status equals the
\* to_status of the row inserted before it, and retryBooking invokes the
\* adapter's createBooking at most once per failed->pending row.  Stated of
\* the outcome, when the overlapping requests have all finished, for bookings
\* whose creation row was in place before any other row.
C10_TransitionsLinearizable ==
    \A b \in DOMAIN bookings :
        LET h == getBookingStateHistory(b) IN
        (Quiescent /\ h # <<>> /\ h[1].from_status = "null") =>
        /\ \A i \in 2..Len(h) : h[i].from_status = h[i-1].to_status
        /\ adapterCreateCalls[b].retry <=
              Cardinality({i \in 1..Len(h) : h[i].from_status = "failed"
                                               /\ h[i].to_status = "pending"})


\* ================================================================ itinerary, events, replan

\* ---------------------------------------------------------------- helpers

\* addMinutes: hours wrap at 24.
addMinutes(t, minutes) == (t + minutes) % MinutesPerDay

\* The tables as one value, so that a handler's statements compose.
DB ==
    [itin |-> itineraries, items |-> itinerary_items, versions |-> itinerary_versions,
     events |-> event_signals, triggers |-> replan_triggers,
     proposals |-> replan_proposals, apps |-> replan_applications, uuids |-> uuids]

St(r, d) == [r |-> r, d |-> d]

\* ORDER BY key: the rows S by ascending key. SQL leaves the order of rows with
\* equal keys open; tie picks one of two orders (by id, up or down).
Before(a, b, key, tie) ==
    \/ key[a] < key[b]
    \/ key[a] = key[b] /\ (IF tie = "first" THEN a < b ELSE a > b)

OrderBy(S, key, tie) ==
    [n \in 1..Cardinality(S) |->
        CHOOSE a \in S : Cardinality({b \in S : Before(b, a, key, tie)}) = n - 1]

\* SELECT * FROM itinerary_items WHERE trip_id = $1 AND day = $2 ORDER BY "order"
getDayItems(items, day, tie) ==
    LET S == {a \in DOMAIN items : items[a].day = day}
        ids == OrderBy(S, [a \in S |-> items[a].order], tie)
    IN [n \in 1..Len(ids) |-> items[ids[n]]]

\* The itineraries row and the trip's items; null without the row. The days
\* the program groups the items into are the days that have items.
getItineraryByTripId(d) ==
    IF d.itin = 0 THEN NoItinerary ELSE [version |-> d.itin, items |-> d.items]

DaysOf(items) == {items[a].day : a \in DOMAIN items}

\* SELECT * FROM itinerary_versions WHERE trip_id = $1 AND version = $2, and
\* rows[0] of it: the statement has no ORDER BY.
getVersion(versions, v, tie) ==
    LET S == {n \in 1..Len(versions) : versions[n].version = v}
    IN versions[IF tie = "first" THEN CHOOSE n \in S : \A m \in S : n <= m
                ELSE CHOOSE n \in S : \A m \in S : n >= m]

\* ---------------------------------------------------------------- how a request ends

\* What stays of a request once it has returned or thrown: its outcome and the
\* arguments it came with.
IFinished(r, res, kind) ==
    [IdleIReq EXCEPT !.op = r.op, !.pc = "done", !.res = res, !.err = kind,
                     !.item = r.item, !.proposal = r.proposal, !.app = r.app,
                     !.target = r.target, !.day = r.day, !.ids = r.ids, !.t = r.t,
                     !.pinned = r.pinned, !.poi_ids = r.poi_ids, !.mode = r.mode,
                     !.max = r.max, !.returned = r.returned]

\* An error raised at the request's position: createVersionSnapshot logs it and
\* returns, the try of applyProposal hands it to its catch, anything else
\* reaches the caller.
IThrow(r, d, kind) ==
    CASE r.ctx = "editor_snapshot" -> St([r EXCEPT !.pc = r.ret, !.ctx = "plain"], d)
      [] r.ctx = "apply_try" ->
            St([r EXCEPT !.pc = "a_rollback", !.ctx = "apply_catch", !.err = kind], d)
      [] OTHER -> St(IFinished(r, "err", kind), d)

\* ---------------------------------------------------------------- version snapshots

\* ItineraryEditorService.createVersionSnapshot(tripId, changeType), with the
\* position to go on from.
EditorSnapshot(r, changeType, ret) ==
    [r EXCEPT !.pc = "evs_read", !.ctx = "editor_snapshot",
              !.change_type = changeType, !.ret = ret]

\* ItineraryVersionService.createSnapshot(tripId, changeType).
CreateSnapshot(r, changeType, ret) ==
    [r EXCEPT !.pc = "snap_read", !.change_type = changeType, !.ret = ret]

\* The itinerary read of createVersionSnapshot; the getVersion after it only
\* feeds the diff and its failure is caught.
EvsRead(r, d) ==
    IF d.itin = 0
    THEN St([r EXCEPT !.pc = r.ret, !.ctx = "plain"], d)
    ELSE St([r EXCEPT !.pc = "snap_read"], d)

\* The change types the CHECK on itinerary_versions.change_type lets in.
ChangeTypes ==
    {"generate", "edit", "reorder", "add", "remove", "pin", "unpin", "time_change"}

\* ItineraryVersionService.createSnapshot, statement by statement.
createSnapshotAt(r, d) ==
    CASE r.pc = "snap_read" ->
        \* createSnapshot: the itinerary is read ...
        IF d.itin = 0
        THEN IThrow(r, d, "NotFoundError")
        ELSE St([r EXCEPT !.snap = getItineraryByTripId(d), !.pc = "snap_insert"], d)
      [] r.pc = "snap_insert" ->
        \* ... and written to itinerary_versions under the version it was read with.
        \* The table's CHECK on change_type is that of migration 001; migration 003 is
        \* not at hand, so whether the CHECK is still in force where the service runs
        \* is open: r.checked says it is, and then a change type outside ChangeTypes
        \* is rejected.
        IF r.checked /\ r.change_type \notin ChangeTypes
        THEN IThrow(r, d, "StoreError")
        ELSE St([r EXCEPT !.pc = r.ret, !.ctx = "plain", !.snap = NoItinerary],
                [d EXCEPT !.versions =
                     Append(@, [version |-> r.snap.version, change_type |-> r.change_type,
                                snapshot |-> r.snap.items])])

\* ---------------------------------------------------------------- the editor

ChangeTypeOf(r) ==
    CASE r.op = "reorder" -> "reorder"
      [] r.op = "togglePin" -> IF r.pinned THEN "pin" ELSE "unpin"
      [] r.op = "setStartTime" -> "time_change"
      [] r.op = "removeItem" -> "remove"
      [] OTHER -> "add"

\* Where an editor operation goes on after its snapshot.
AfterSnapshot(r) ==
    CASE r.op = "reorder" -> "ro_get"
      [] r.op = "removeItem" -> "ed_return"
      [] OTHER -> "get_item"

RECURSIVE SkipPinned(_, _, _)
\* recalculateDayTimes between two UPDATEs: a pinned item whose start is not the
\* cursor is left alone and the cursor becomes its end.
SkipPinned(list, i, cur) ==
    IF i > Len(list) THEN [i |-> i, cur |-> cur]
    ELSE IF list[i].is_pinned /\ list[i].start_time # cur
    THEN SkipPinned(list, i + 1, list[i].end_time)
    ELSE [i |-> i, cur |-> cur]

AfterRecalc(r) ==
    EditorSnapshot([r EXCEPT !.list = <<>>, !.i = 0, !.cur = NoTime],
                   ChangeTypeOf(r), AfterSnapshot(r))

RecalcGo(r, list, nx) ==
    IF nx.i > Len(list) THEN AfterRecalc(r)
    ELSE [r EXCEPT !.pc = "rc_update", !.list = list, !.i = nx.i, !.cur = nx.cur]

\* recalculateDayTimes, statement by statement.
recalculateDayTimes(r, d) ==
    CASE r.pc = "rc_read" ->
        \* recalculateDayTimes: the day's items by order, and the preferences.
        LET list == getDayItems(d.items, r.day, r.tie)
        IN St(RecalcGo(r, list, SkipPinned(list, 1, preferences.daily_time_window.start)), d)
      [] r.pc = "rc_update" ->
        \* recalculateDayTimes: UPDATE itinerary_items SET start_time, end_time WHERE id
        \* for the item the loop stands at, from the copy read at the start.
        LET item == r.list[r.i]
            newEnd == addMinutes(r.cur, item.duration_minutes)
        IN St(RecalcGo(r, r.list, SkipPinned(r.list, r.i + 1, newEnd)),
              [d EXCEPT !.items =
                   IF item.id \in DOMAIN @
                   THEN [@ EXCEPT ![item.id].start_time = r.cur, ![item.id].end_time = newEnd]
                   ELSE @])

\* getItemById, last statement of togglePin, setStartTime and addItem.
GetItem(r, d) ==
    IF r.item \in DOMAIN d.items
    THEN St(IFinished(r, "ok", "none"), d)
    ELSE IThrow(r, d, "NotFoundError")

\* reorderItems up to recalculateDayTimes.
reorderItemsAt(r, d) ==
    CASE r.pc = "ro_check" ->
        \* reorderItems: the count of rows of the day among the ids given.
        LET found == {a \in DOMAIN d.items :
                        d.items[a].day = r.day /\ \E n \in 1..Len(r.ids) : r.ids[n] = a}
        IN IF Cardinality(found) # Len(r.ids)
           THEN IThrow(r, d, "ValidationError")
           ELSE St([r EXCEPT !.pc = IF r.ids = <<>> THEN "rc_read" ELSE "ro_update",
                             !.i = 1], d)
      [] r.pc = "ro_update" ->
        \* reorderItems: UPDATE itinerary_items SET "order" = i for itemIds[i].
        St(IF r.i = Len(r.ids) THEN [r EXCEPT !.pc = "rc_read", !.i = 0]
           ELSE [r EXCEPT !.i = r.i + 1],
           [d EXCEPT !.items =
                IF r.ids[r.i] \in DOMAIN @ THEN [@ EXCEPT ![r.ids[r.i]].order = r.i - 1]
                ELSE @])

\* togglePin: UPDATE itinerary_items SET is_pinned.
TogglePinUpdate(r, d) ==
    St(EditorSnapshot(r, ChangeTypeOf(r), AfterSnapshot(r)),
       [d EXCEPT !.items =
            IF r.item \in DOMAIN @ THEN [@ EXCEPT ![r.item].is_pinned = r.pinned] ELSE @])

\* setStartTime up to recalculateDayTimes.
setStartTimeAt(r, d) ==
    CASE r.pc = "st_get" ->
        \* setStartTime: the item is read for its day and duration.
        IF r.item \notin DOMAIN d.items
        THEN IThrow(r, d, "NotFoundError")
        ELSE St([r EXCEPT !.pc = "st_update", !.day = d.items[r.item].day,
                          !.cur = d.items[r.item].duration_minutes], d)
      [] r.pc = "st_update" ->
        \* setStartTime: UPDATE itinerary_items SET start_time, end_time.
        St([r EXCEPT !.pc = "rc_read", !.cur = NoTime],
           [d EXCEPT !.items =
                IF r.item \in DOMAIN @
                THEN [@ EXCEPT ![r.item].start_time = r.t,
                               ![r.item].end_time = addMinutes(r.t, r.cur)]
                ELSE @])

\* DELETE FROM itinerary_items WHERE id = $1
DeleteRow(items, a) == [b \in DOMAIN items \ {a} |-> items[b]]

\* removeItem up to recalculateDayTimes.
removeItemAt(r, d) ==
    CASE r.pc = "rm_get" ->
        \* removeItem: the item is read; a pinned one is refused.
        IF r.item \notin DOMAIN d.items
        THEN IThrow(r, d, "NotFoundError")
        ELSE IF d.items[r.item].is_pinned
        THEN IThrow(r, d, "ValidationError")
        ELSE St([r EXCEPT !.pc = "rm_delete", !.day = d.items[r.item].day], d)
      [] r.pc = "rm_delete" ->
        St([r EXCEPT !.pc = "rc_read"], [d EXCEPT !.items = DeleteRow(@, r.item)])

\* addItem up to recalculateDayTimes.
addItemAt(r, d) ==
    CASE r.pc = "ad_read" ->
        \* addItem: the POI, the preferences and the day's items are read; without a
        \* start time from the caller the item starts a buffer after the day's last.
        IF r.poi \notin PoiIds
        THEN IThrow(r, d, "NotFoundError")
        ELSE LET existingItems == getDayItems(d.items, r.day, r.tie)
             IN St([r EXCEPT !.pc = "ad_insert",
                      !.cur = IF r.t # NoTime THEN r.t
                              ELSE IF existingItems # <<>>
                              THEN addMinutes(existingItems[Len(existingItems)].end_time,
                                              DEFAULT_BUFFER_MINUTES)
                              ELSE preferences.daily_time_window.start,
                      !.i = Len(existingItems),
                      !.item = d.uuids.item + 1],
                   [d EXCEPT !.uuids.item = @ + 1])
      [] r.pc = "ad_insert" ->
        \* addItem: INSERT INTO itinerary_items.
        St([r EXCEPT !.pc = "rc_read", !.cur = NoTime, !.i = 0],
           [d EXCEPT !.items = @ @@ (r.item :>
                [id |-> r.item, day |-> r.day, order |-> r.i,
                 start_time |-> r.cur,
                 end_time |-> addMinutes(r.cur, pois[r.poi].avg_duration_minutes),
                 duration_minutes |-> pois[r.poi].avg_duration_minutes,
                 is_pinned |-> FALSE, poi_id |-> r.poi,
                 cost_estimate |-> pois[r.poi].price])])


\* ---------------------------------------------------------------- the generator

\* Math.ceil((endDate - startDate) / one day)
numDays == preferences.dates.end - preferences.dates.start

\* The day of the trip the clock stands in, as new Date() sees it.
Today == now \div MinutesPerDay

\* distributePOIs: POI number index (from 0) goes to day index % numDays.
RECURSIVE distributePOIs(_, _, _)
distributePOIs(list, index, dayIndex) ==
    IF index > Len(list) THEN <<>>
    ELSE IF (index - 1) % numDays = dayIndex
    THEN <<list[index]>> \o distributePOIs(list, index + 1, dayIndex)
    ELSE distributePOIs(list, index + 1, dayIndex)

RECURSIVE PinnedCursor(_, _)
\* generateDayItems, the pinned items: parseTime(pinnedItem.end_time) is that
\* time on the day the clock stands in, and moves currentTime when later.
PinnedCursor(pinned, cur) ==
    IF pinned = <<>> THEN cur
    ELSE LET pinnedEnd == Today * MinutesPerDay + pinned[1].end_time
         IN PinnedCursor(Tail(pinned), IF pinnedEnd > cur THEN pinnedEnd ELSE cur)

RECURSIVE PlacePois(_, _, _, _, _, _)
\* generateDayItems, the loop over the day's POIs. Times are minutes since the
\* clock's day 0 until formatTime cuts them to the time of day.
PlacePois(dayNum, dayPois, i, items, cur, uid) ==
    IF i > Len(dayPois) THEN [items |-> items, uid |-> uid]
    ELSE
    LET base == (preferences.dates.start + dayNum - 1) * MinutesPerDay
        endTime == base + preferences.daily_time_window.end
        poi == pois[dayPois[i]]
        hours == poi.hours[((preferences.dates.start + dayNum - 1) % 7) + 1]
        duration == poi.avg_duration_minutes
        opened == IF hours.open # NoTime /\ base + hours.open > cur
                  THEN base + hours.open ELSE cur
        itemStartTime == opened + (IF items # <<>>
                                   THEN DEFAULT_BUFFER_MINUTES + DEFAULT_TRAVEL_TIME_PLACEHOLDER
                                   ELSE DEFAULT_BUFFER_MINUTES)
        finalEndTime == itemStartTime + duration
        item == [id |-> uid + 1, day |-> dayNum, order |-> Len(items),
                 start_time |-> itemStartTime % MinutesPerDay,
                 end_time |-> finalEndTime % MinutesPerDay,
                 duration_minutes |-> duration, is_pinned |-> FALSE,
                 poi_id |-> dayPois[i], cost_estimate |-> poi.price]
    IN IF cur >= endTime THEN [items |-> items, uid |-> uid]
       ELSE IF hours.closed THEN PlacePois(dayNum, dayPois, i + 1, items, cur, uid)
       ELSE IF hours.close # NoTime /\ opened + duration > base + hours.close
       THEN PlacePois(dayNum, dayPois, i + 1, items, cur, uid)
       ELSE IF opened + duration > endTime THEN [items |-> items, uid |-> uid]
       ELSE IF \/ finalEndTime > endTime
               \/ hours.close # NoTime /\ finalEndTime > base + hours.close
       THEN PlacePois(dayNum, dayPois, i + 1, items, cur, uid)
       ELSE PlacePois(dayNum, dayPois, i + 1, Append(items, item), finalEndTime, uid + 1)

\* generateDayItems: the pinned items first, as they are, then the POIs.
generateDayItems(dayNum, dayPois, pinnedItems, uid) ==
    PlacePois(dayNum, dayPois, 1, pinnedItems,
              PinnedCursor(pinnedItems,
                  (preferences.dates.start + dayNum - 1) * MinutesPerDay
                      + preferences.daily_time_window.start),
              uid)

RECURSIVE generateDays(_, _, _, _, _, _)
\* generateDays: the items of days dayNum..numDays, one after another.
generateDays(list, existing, preservePinned, tie, dayNum, uid) ==
    IF dayNum > numDays THEN [items |-> <<>>, uid |-> uid]
    ELSE LET pinnedItems == IF preservePinned /\ existing.version # 0
                            THEN SelectSeq(getDayItems(existing.items, dayNum, tie),
                                           LAMBDA item : item.is_pinned)
                            ELSE <<>>
             day == generateDayItems(dayNum, distributePOIs(list, 1, dayNum - 1),
                                     pinnedItems, uid)
             rest == generateDays(list, existing, preservePinned, tie, dayNum + 1, day.uid)
         IN [items |-> day.items \o rest.items, uid |-> rest.uid]

\* generateItinerary up to saveItinerary: the trip, the POIs and, in
\* incremental mode only, the existing itinerary are read and the days built.
GenerateRead(r, d) ==
    IF SelectSeq(r.poi_ids, LAMBDA q : q \in PoiIds) = <<>>
    THEN IThrow(r, d, "ValidationError")
    ELSE LET existing == IF r.mode = "incremental" THEN getItineraryByTripId(d)
                         ELSE NoItinerary
             days == generateDays(SelectSeq(r.poi_ids, LAMBDA q : q \in PoiIds),
                                  existing, r.preserve, r.tie, 1, d.uuids.item)
         IN St([r EXCEPT !.pc = "g_delete", !.loaded = existing, !.list = days.items],
               [d EXCEPT !.uuids.item = days.uid])

\* saveItinerary, statement by statement, and the snapshot generateItinerary takes after it.
saveItinerary(r, d) ==
    CASE r.pc = "g_delete" ->
        \* saveItinerary: DELETE FROM itinerary_items WHERE trip_id = $1
        St([r EXCEPT !.pc = IF r.list = <<>> THEN "g_upsert" ELSE "g_insert", !.i = 1],
           [d EXCEPT !.items = <<>>])
      [] r.pc = "g_insert" ->
        \* saveItinerary: INSERT INTO itinerary_items, one item after another.
        IF r.list[r.i].id \in DOMAIN d.items
        THEN IThrow(r, d, "StoreError")
        ELSE St(IF r.i = Len(r.list) THEN [r EXCEPT !.pc = "g_upsert", !.i = 0]
                ELSE [r EXCEPT !.i = r.i + 1],
                [d EXCEPT !.items = @ @@ (r.list[r.i].id :> r.list[r.i])])
      [] r.pc = "g_upsert" ->
        \* saveItinerary: the itineraries row gets version currentVersion + 1, where
        \* currentVersion is existingItinerary?.version || 0. The getVersion that
        \* follows only feeds the diff and its failure is caught.
        St(CreateSnapshot([r EXCEPT !.list = <<>>, !.loaded = NoItinerary],
                          IF r.mode = "incremental" THEN "edit" ELSE "generate",
                          "g_return"),
           [d EXCEPT !.itin = r.loaded.version + 1])

\* A handler with nothing left to do returns.
Return(r, d) == St(IFinished(r, "ok", "none"), d)


\* ---------------------------------------------------------------- events

\* The items an event touches, in the order of the itinerary (day, order).
AffectedSeq(items, S, tie) ==
    OrderBy(S, [a \in S |-> items[a].day * 100 + items[a].order], tie)

\* ingestWeatherEvent / ingestClosureEvent, statement by statement.
ingestEventAt(r, d) ==
    CASE r.pc = "ev_read" ->
        \* ingestWeatherEvent / ingestClosureEvent: the itinerary is read and
        \* findAffectedItems run; which items it finds follows from the location and
        \* time slot the caller sends.
        IF d.itin = 0
        THEN IThrow(r, d, "NotFoundError")
        ELSE St([r EXCEPT !.pc = "ev_insert"], d)
      [] r.pc = "ev_insert" ->
        \* INSERT INTO event_signals; of the details only a weather event's condition
        \* is kept here.
        LET eventId == Cardinality(DOMAIN d.events) + 1
            triggers == IF r.etype = "weather"
                        THEN r.severity = "high" /\ r.condition = "heavy_rain"
                        ELSE r.severity \in {"high", "medium"}
        IN St([r EXCEPT !.pc = IF triggers THEN "ev_trigger" ELSE "ev_get", !.i = eventId],
              [d EXCEPT !.events = @ @@ (eventId :>
                   [event_type |-> r.etype, severity |-> r.severity,
                    condition |-> IF r.etype = "weather" THEN r.condition ELSE "none",
                    affected_items |-> r.affected])])
      [] r.pc = "ev_trigger" ->
        \* createReplanTrigger(tripId, eventId, reason): priority is left to its
        \* default.
        St([r EXCEPT !.pc = "ev_get"],
           [d EXCEPT !.triggers = @ @@ ((Cardinality(DOMAIN @) + 1) :>
                [event_signal_id |-> r.i, priority |-> "medium", processed |-> FALSE])])
      [] r.pc = "ev_get" ->
        \* getEventSignalById(eventId), the value returned.
        IF r.i \in DOMAIN d.events THEN Return(r, d) ELSE IThrow(r, d, "NotFoundError")

\* ---------------------------------------------------------------- the replan engine

\* dayData.items.sort by start_time: a stable sort of the items read by order.
SortedByStart(items, day, tie) ==
    LET S == {a \in DOMAIN items : items[a].day = day}
        ids == OrderBy(S, [a \in S |-> items[a].start_time * 100 + items[a].order], tie)
    IN [n \in 1..Len(ids) |-> items[ids[n]]]

RECURSIVE SlotScan(_, _, _, _)
\* findAvailableTimeSlot, the loop and what follows it.
SlotScan(list, i, durationMinutes, currentTime) ==
    IF i > Len(list)
    THEN IF list # <<>> /\ list[Len(list)].end_time + durationMinutes <= EngineWindow.end
         THEN (list[Len(list)].end_time + DEFAULT_BUFFER_MINUTES) % MinutesPerDay
         ELSE NoTime
    ELSE IF list[i].is_pinned THEN SlotScan(list, i + 1, durationMinutes, currentTime)
    ELSE IF currentTime + durationMinutes <= list[i].start_time THEN currentTime
    ELSE SlotScan(list, i + 1, durationMinutes,
                  addMinutes(list[i].end_time, DEFAULT_BUFFER_MINUTES))

findAvailableTimeSlot(itinerary, day, durationMinutes, afterTime, tie) ==
    IF day \notin DaysOf(itinerary.items) THEN NoTime
    ELSE SlotScan(SortedByStart(itinerary.items, day, tie), 1, durationMinutes,
                  IF afterTime # NoTime THEN afterTime ELSE EngineWindow.start)

RECURSIVE findAvailableDay(_, _, _, _, _)
\* findAvailableDay: the first day of the itinerary, other than excludeDay, with
\* a slot; day 0 stands for null.
findAvailableDay(itinerary, excludeDay, durationMinutes, tie, day) ==
    IF day > numDays THEN [day |-> 0, availableTime |-> NoTime]
    ELSE LET slot == findAvailableTimeSlot(itinerary, day, durationMinutes, NoTime, tie)
         IN IF day # excludeDay /\ slot # NoTime
            THEN [day |-> day, availableTime |-> slot]
            ELSE findAvailableDay(itinerary, excludeDay, durationMinutes, tie, day + 1)

\* The affected items the proposal builders go on with: those found in the
\* itinerary and not pinned.
RECURSIVE Movable(_, _)
Movable(itinerary, affected) ==
    IF affected = <<>> THEN <<>>
    ELSE (IF /\ affected[1] \in DOMAIN itinerary.items
             /\ ~itinerary.items[affected[1]].is_pinned
          THEN <<itinerary.items[affected[1]]>> ELSE <<>>)
         \o Movable(itinerary, Tail(affected))

RECURSIVE ReplacedItems(_, _, _)
\* createReplaceOutdoorWithIndoorProposal: alternatives.pois[0] takes each
\* item's start time.
ReplacedItems(list, alt, uid) ==
    IF list = <<>> \/ alt = 0 THEN <<>>
    ELSE <<[old_item_id |-> list[1].id,
            new_item |-> [id |-> uid + 1, poi_id |-> alt,
                          start_time |-> list[1].start_time,
                          end_time |-> addMinutes(list[1].start_time,
                                                  pois[alt].avg_duration_minutes)]]>>
         \o ReplacedItems(Tail(list), alt, uid + 1)

RECURSIVE MovedToOtherDay(_, _, _)
\* createMoveToDifferentDayProposal
MovedToOtherDay(itinerary, list, tie) ==
    IF list = <<>> THEN <<>>
    ELSE LET targetDay == findAvailableDay(itinerary, list[1].day,
                                           list[1].duration_minutes, tie, 1)
         IN (IF targetDay.day # 0
             THEN <<[item_id |-> list[1].id, old_day |-> list[1].day,
                     new_day |-> targetDay.day, old_time |-> list[1].start_time,
                     new_time |-> targetDay.availableTime]>>
             ELSE <<>>)
            \o MovedToOtherDay(itinerary, Tail(list), tie)

RECURSIVE MovedToLaterSlot(_, _, _)
\* createMoveTimeSlotProposal
MovedToLaterSlot(itinerary, list, tie) ==
    IF list = <<>> THEN <<>>
    ELSE LET newTime == findAvailableTimeSlot(itinerary, list[1].day,
                                              list[1].duration_minutes,
                                              list[1].end_time, tie)
         IN (IF newTime # NoTime
             THEN <<[item_id |-> list[1].id, old_day |-> list[1].day,
                     new_day |-> list[1].day, old_time |-> list[1].start_time,
                     new_time |-> newTime]>>
             ELSE <<>>)
            \o MovedToLaterSlot(itinerary, Tail(list), tie)

RECURSIVE SumSeq(_)
\* totalCostChange += ..., totalTimeChange += ...: the sum of the loop's terms.
SumSeq(terms) == IF terms = <<>> THEN 0 ELSE terms[1] + SumSeq(Tail(terms))

\* calculateDisruptionScore; scores are counted in hundredths.
calculateDisruptionScore(changes) ==
    LET score == 30 * Len(changes.replaced_items) + 20 * Len(changes.moved_items)
                 + 40 * Len(changes.removed_items) + 10 * Len(changes.added_items)
    IN IF score < 100 THEN score ELSE 100

\* calculateScore with the reward also given where the cost does not change.
calculateScoreRewardingNoChange(impact) ==
    LET penalized == 100 - impact.disruption_score \div 2
        costed == IF impact.cost_change <= 0 THEN penalized + 20 ELSE penalized - 10
        timed == IF impact.time_change_minutes > 60 \/ impact.time_change_minutes < 0 - 60
                 THEN costed - 10 ELSE costed
    IN IF timed < 0 THEN 0 ELSE IF timed > 100 THEN 100 ELSE timed

\* calculateScore: Math.max(0, Math.min(1, score)), in hundredths.
calculateScore(impact) ==
    LET penalized == 100 - impact.disruption_score \div 2
        costed == IF impact.cost_change < 0 THEN penalized + 20
                  ELSE IF impact.cost_change > 0 THEN penalized - 10 ELSE penalized
        timed == IF impact.time_change_minutes > 60 \/ impact.time_change_minutes < 0 - 60
                 THEN costed - 10 ELSE costed
    IN IF timed < 0 THEN 0 ELSE IF timed > 100 THEN 100 ELSE timed

\* proposals.sort((a, b) => b.score - a.score): by descending score, equal
\* scores in the order the proposals were built.
sortByScore(made) ==
    [n \in DOMAIN made |->
        made[CHOOSE k \in DOMAIN made :
                Cardinality({j \in DOMAIN made :
                               \/ made[j].score > made[k].score
                               \/ made[j].score = made[k].score /\ j < k}) = n - 1]]

\* The proposals generateProposals builds for an event, the null ones left out.
BuildProposals(itinerary, event, alt, tie, trigger, uid) ==
    LET list == Movable(itinerary, event.affected_items)
        \* calculateImpact: the changes' time, cost and disruption
        impact(changes, timeChange, costChange) ==
            [time_change_minutes |-> timeChange, cost_change |-> costChange,
             disruption_score |-> calculateDisruptionScore(changes)]
        proposal(explanation, changes, timeChange, costChange) ==
            [trigger_id |-> trigger, explanation |-> explanation, changes |-> changes,
             impact |-> impact(changes, timeChange, costChange),
             score |-> calculateScore(impact(changes, timeChange, costChange))]
        replace == proposal("replace",
                            [NoChanges EXCEPT !.replaced_items = ReplacedItems(list, alt, uid)],
                            IF alt = 0 THEN 0
                            ELSE SumSeq([n \in 1..Len(list) |->
                                            pois[alt].avg_duration_minutes
                                            - list[n].duration_minutes]),
                            IF alt = 0 THEN 0
                            ELSE SumSeq([n \in 1..Len(list) |->
                                            pois[alt].price - list[n].cost_estimate]))
        moveDay == proposal("move_day",
                            [NoChanges EXCEPT
                                !.moved_items = MovedToOtherDay(itinerary, list, tie)],
                            0, 0)
        remove == proposal("remove",
                           [NoChanges EXCEPT !.removed_items =
                                [n \in 1..Len(list) |-> [item_id |-> list[n].id]]],
                           0,
                           0 - SumSeq([n \in 1..Len(list) |-> list[n].cost_estimate]))
        moveSlot == proposal("move_slot",
                             [NoChanges EXCEPT
                                 !.moved_items = MovedToLaterSlot(itinerary, list, tie)],
                             0, 0)
        built == IF event.affected_items = <<>> THEN <<>>
                 ELSE IF event.event_type = "weather" /\ event.severity = "high"
                 THEN <<replace, moveDay, remove>>
                 ELSE IF event.event_type = "closure" THEN <<replace, moveSlot>>
                 ELSE <<>>
    IN sortByScore(SelectSeq(built, LAMBDA q : q.changes # NoChanges))

\* generateProposals with its proposals built and sorted: they go to saveProposal,
\* and proposals.slice(0, maxProposals) is what the request will return.
ProposalsBuilt(r, d, built) ==
    IF built = <<>> THEN Return(r, d)
    ELSE St([r EXCEPT !.pc = "p_save", !.list = built, !.i = 1,
                      !.proposal = d.uuids.proposal,
                      !.returned = [n \in 1..(IF r.max < Len(built) THEN r.max ELSE Len(built))
                                      |-> d.uuids.proposal + n]],
            [d EXCEPT !.uuids = [item |-> @.item
                                          + SumSeq([n \in 1..Len(built) |->
                                                      Len(built[n].changes.replaced_items)]),
                                 proposal |-> @.proposal + Len(built)]])

\* generateProposals, statement by statement.
generateProposalsAt(r, d) ==
    CASE r.pc = "p_read" ->
        \* generateProposals up to saveProposal: the pending trigger, the itinerary,
        \* the event signal and the alternatives are read and the proposals built.
        IF r.trigger \notin DOMAIN d.triggers \/ d.triggers[r.trigger].processed
        THEN IThrow(r, d, "NotFoundError")
        ELSE IF d.itin = 0 THEN IThrow(r, d, "NotFoundError")
        ELSE ProposalsBuilt(r, d,
                            BuildProposals(getItineraryByTripId(d),
                                           d.events[d.triggers[r.trigger].event_signal_id],
                                           r.alt, r.tie, r.trigger, d.uuids.item))
      [] r.pc = "p_save" ->
        \* saveProposal: INSERT INTO replan_proposals, one proposal after another; the
        \* ids were drawn when the proposals were built.
        St(IF r.i = Len(r.list) THEN IFinished([r EXCEPT !.proposal = 0], "ok", "none")
           ELSE [r EXCEPT !.i = r.i + 1],
           [d EXCEPT !.proposals = @ @@ ((r.proposal + r.i) :> r.list[r.i])])


\* ---------------------------------------------------------------- applyProposal

\* applyChanges: the days whose order is recalculated, each once. The source
\* keeps them in the order it met them; recalculating one day touches no row
\* of another, so they are taken here by number.
affectedDays(changes, itinerary) ==
    LET S == {changes.moved_items[n].old_day : n \in DOMAIN changes.moved_items}
             \cup {changes.moved_items[n].new_day : n \in DOMAIN changes.moved_items}
             \cup {itinerary.items[a].day :
                      a \in {changes.replaced_items[n].old_item_id :
                                n \in DOMAIN changes.replaced_items}
                            \cap DOMAIN itinerary.items}
             \cup {changes.added_items[n].day : n \in DOMAIN changes.added_items}
    IN OrderBy(S, [day \in S |-> day], "first")

\* getDayFromTime: itinerary.days[0]?.day || 1
getDayFromTime(itinerary) ==
    IF itinerary.items = <<>> THEN 1
    ELSE CHOOSE day \in DaysOf(itinerary.items) :
            \A other \in DaysOf(itinerary.items) : day <= other

\* calculateDuration(start, end): the minutes from start to end of one day.
calculateDuration(startTime, endTime) == endTime - startTime

RECURSIVE ApplyNext(_, _, _)
\* applyChanges and what follows it as one list of loops: where applyProposal
\* stands after step i of loop n.
ApplyNext(r, n, i) ==
    IF i < (CASE n = 1 -> Len(r.prop.changes.removed_items)
              [] n = 2 -> Len(r.prop.changes.replaced_items)
              [] n = 3 -> Len(r.prop.changes.moved_items)
              [] n = 4 -> Len(r.prop.changes.added_items)
              [] n = 5 -> Len(affectedDays(r.prop.changes, r.loaded))
              [] OTHER -> 1)
    THEN [r EXCEPT !.pc = <<"a_remove", "a_rep_del", "a_move", "a_add", "a_order",
                            "a_version">>[n],
                   !.i = i + 1]
    ELSE ApplyNext(r, n + 1, 0)

\* recalculateDayOrder: "order" = ROW_NUMBER() OVER (ORDER BY start_time) - 1
\* for the rows of the day.
recalculateDayOrder(items, day, tie) ==
    LET S == {a \in DOMAIN items : items[a].day = day}
        ids == OrderBy(S, [a \in S |-> items[a].start_time], tie)
    IN [a \in DOMAIN items |->
          IF a \in S
          THEN [items[a] EXCEPT !.order = (CHOOSE n \in 1..Len(ids) : ids[n] = a) - 1]
          ELSE items[a]]

\* applyChanges, statement by statement.
applyChanges(r, d) ==
    CASE r.pc = "a_remove" ->
        \* DELETE FROM itinerary_items WHERE id = removed.item_id
        St(ApplyNext(r, 1, r.i),
           [d EXCEPT !.items = DeleteRow(@, r.prop.changes.removed_items[r.i].item_id)])
      [] r.pc = "a_rep_del" ->
        \* DELETE FROM itinerary_items WHERE id = replaced.old_item_id
        St([r EXCEPT !.pc = "a_rep_ins"],
           [d EXCEPT !.items = DeleteRow(@, r.prop.changes.replaced_items[r.i].old_item_id)])
      [] r.pc = "a_rep_ins" ->
        \* INSERT INTO itinerary_items for replaced.new_item: not pinned, order 0.
        LET item == r.prop.changes.replaced_items[r.i].new_item
        IN IF item.id \in DOMAIN d.items
           THEN IThrow(r, d, "StoreError")
           ELSE St(ApplyNext(r, 2, r.i),
                   [d EXCEPT !.items = @ @@ (item.id :>
                        [id |-> item.id, day |-> getDayFromTime(r.loaded), order |-> 0,
                         start_time |-> item.start_time, end_time |-> item.end_time,
                         duration_minutes |-> calculateDuration(item.start_time, item.end_time),
                         is_pinned |-> FALSE, poi_id |-> item.poi_id,
                         cost_estimate |-> 0])])
      [] r.pc = "a_move" ->
        \* UPDATE itinerary_items SET day, start_time, end_time WHERE id = moved.item_id:
        \* calculateNewEndTime adds two hours to the new start.
        LET moved == r.prop.changes.moved_items[r.i]
        IN St(ApplyNext(r, 3, r.i),
              [d EXCEPT !.items =
                   IF moved.item_id \in DOMAIN @
                   THEN [@ EXCEPT ![moved.item_id].day = moved.new_day,
                                  ![moved.item_id].start_time = moved.new_time,
                                  ![moved.item_id].end_time =
                                      addMinutes(moved.new_time, MovedItemDuration)]
                   ELSE @])
      [] r.pc = "a_add" ->
        \* INSERT INTO itinerary_items for an added item: not pinned, order 0.
        LET added == r.prop.changes.added_items[r.i]
        IN IF added.id \in DOMAIN d.items
           THEN IThrow(r, d, "StoreError")
           ELSE St(ApplyNext(r, 4, r.i),
                   [d EXCEPT !.items = @ @@ (added.id :>
                        [id |-> added.id, day |-> added.day, order |-> 0,
                         start_time |-> added.start_time, end_time |-> added.end_time,
                         duration_minutes |-> calculateDuration(added.start_time, added.end_time),
                         is_pinned |-> FALSE, poi_id |-> added.poi_id,
                         cost_estimate |-> 0])])
      [] r.pc = "a_order" ->
        St(ApplyNext(r, 5, r.i),
           [d EXCEPT !.items =
                recalculateDayOrder(@, affectedDays(r.prop.changes, r.loaded)[r.i], r.tie)])

\* The UPDATE below leaving the version as it is.
ApplyVersionKept(r, d) ==
    St([r EXCEPT !.pc = "a_app", !.i = 0], d)

\* UPDATE itineraries SET version = currentItinerary.version + 1
ApplyVersion(r, d) ==
    St([r EXCEPT !.pc = "a_app", !.i = 0],
       [d EXCEPT !.itin = IF @ = 0 THEN 0 ELSE r.loaded.version + 1])

\* The INSERT below with the version that was read in place of the new one.
ApplyRecordStaleVersion(r, d) ==
    LET applicationId == Cardinality(DOMAIN d.apps) + 1
    IN St([r EXCEPT !.pc = IF r.prop.trigger_id # 0 THEN "a_trigger" ELSE "a_commit",
                    !.app = applicationId],
          [d EXCEPT !.apps = @ @@ (applicationId :>
               [proposal_id |-> r.proposal,
                applied_version |-> r.loaded.version,
                rollback_available_until |-> now + ROLLBACK_WINDOW_HOURS * 60,
                rolled_back |-> FALSE])])

\* INSERT INTO replan_applications; rolled_back is left to its default.
ApplyRecord(r, d) ==
    LET applicationId == Cardinality(DOMAIN d.apps) + 1
    IN St([r EXCEPT !.pc = IF r.prop.trigger_id # 0 THEN "a_trigger" ELSE "a_commit",
                    !.app = applicationId],
          [d EXCEPT !.apps = @ @@ (applicationId :>
               [proposal_id |-> r.proposal,
                applied_version |-> r.loaded.version + 1,
                rollback_available_until |-> now + ROLLBACK_WINDOW_HOURS * 60,
                rolled_back |-> FALSE])])

\* applyProposal, statement by statement, but for applyChanges.
applyProposalAt(r, d) ==
    CASE r.pc = "a_read" ->
        \* applyProposal before its snapshot: getProposal and getItineraryByTripId; the
        \* getVersion after them only feeds the diff and its failure is caught.
        IF r.proposal \notin DOMAIN d.proposals THEN IThrow(r, d, "NotFoundError")
        ELSE IF d.itin = 0 THEN IThrow(r, d, "NotFoundError")
        ELSE St(CreateSnapshot([r EXCEPT !.prop = d.proposals[r.proposal],
                                         !.loaded = getItineraryByTripId(d)],
                               "replan", "a_begin"), d)
      [] r.pc = "a_begin" ->
        \* query('BEGIN'): pool.query runs it on whichever client of the pool is idle
        \* and hands the client back. The statements that follow belong to the
        \* transaction when the pool runs them on that client (held), and are
        \* committed one by one when it runs them on another.
        St([ApplyNext(r, 1, 0) EXCEPT
                !.ctx = "apply_try",
                !.undo = IF r.held
                         THEN <<[items |-> d.items, itin |-> d.itin, apps |-> d.apps,
                                 triggers |-> d.triggers]>>
                         ELSE <<>>],
           d)
      [] r.pc = "a_version" ->
        ApplyVersion(r, d)
      [] r.pc = "a_app" ->
        ApplyRecord(r, d)
      [] r.pc = "a_trigger" ->
        \* markTriggerProcessed(proposal.trigger_id)
        St([r EXCEPT !.pc = "a_commit"],
           [d EXCEPT !.triggers =
                IF r.prop.trigger_id \in DOMAIN @
                THEN [@ EXCEPT ![r.prop.trigger_id].processed = TRUE] ELSE @])
      [] r.pc = "a_commit" ->
        \* query('COMMIT'), and the response.
        Return(r, d)
      [] r.pc = "a_rollback" ->
        \* The catch: query('ROLLBACK') undoes what the transaction holds, and the
        \* error is thrown on.
        St(IFinished(r, "err", r.err),
           IF r.undo = <<>> THEN d
           ELSE [d EXCEPT !.items = r.undo[1].items, !.itin = r.undo[1].itin,
                          !.apps = r.undo[1].apps, !.triggers = r.undo[1].triggers])

\* ---------------------------------------------------------------- rollback

\* rollbackToVersion, statement by statement.
rollbackToVersionAt(r, d) ==
    CASE r.pc = "rv_read" ->
        \* rollbackToVersion: getVersion(targetVersion) and the current itinerary.
        IF \A n \in 1..Len(d.versions) : d.versions[n].version # r.target
        THEN IThrow(r, d, "NotFoundError")
        ELSE IF d.itin = 0 THEN IThrow(r, d, "NotFoundError")
        ELSE IF r.target >= d.itin THEN IThrow(r, d, "ValidationError")
        ELSE LET target == getVersion(d.versions, r.target, r.tie)
                 ids == AffectedSeq(target.snapshot, DOMAIN target.snapshot, r.tie)
             IN St([r EXCEPT !.pc = "rv_delete",
                             !.list = [n \in 1..Len(ids) |-> target.snapshot[ids[n]]]], d)
      [] r.pc = "rv_delete" ->
        \* DELETE FROM itinerary_items WHERE trip_id = $1
        St([r EXCEPT !.pc = IF r.list = <<>> THEN "rv_version" ELSE "rv_insert", !.i = 1],
           [d EXCEPT !.items = <<>>])
      [] r.pc = "rv_insert" ->
        \* INSERT INTO itinerary_items, one item of the snapshot after another.
        IF r.list[r.i].id \in DOMAIN d.items
        THEN IThrow(r, d, "StoreError")
        ELSE St(IF r.i = Len(r.list) THEN [r EXCEPT !.pc = "rv_version", !.i = 0]
                ELSE [r EXCEPT !.i = r.i + 1],
                [d EXCEPT !.items = @ @@ (r.list[r.i].id :> r.list[r.i])])
      [] r.pc = "rv_version" ->
        \* UPDATE itineraries SET version = target.version, then the snapshot of the
        \* rollback.
        St(CreateSnapshot([r EXCEPT !.list = <<>>], "edit", "rv_get"),
           [d EXCEPT !.itin = IF @ = 0 THEN 0 ELSE r.target])
      [] r.pc = "rv_get" ->
        \* The itinerary rollbackToVersion returns; rollbackReplan goes on.
        IF r.op = "rollbackReplan" THEN St([r EXCEPT !.pc = "rb_mark"], d) ELSE Return(r, d)

\* rollbackReplan around rollbackToVersion.
rollbackReplanAt(r, d) ==
    CASE r.pc = "rb_check" ->
        \* rollbackReplan: the application row is read and checked.
        IF r.app \notin DOMAIN d.apps THEN IThrow(r, d, "NotFoundError")
        ELSE IF d.apps[r.app].rollback_available_until < now
        THEN IThrow(r, d, "ValidationError")
        ELSE IF d.apps[r.app].rolled_back THEN IThrow(r, d, "ValidationError")
        ELSE St([r EXCEPT !.pc = "rv_read", !.target = d.apps[r.app].applied_version - 1], d)
      [] r.pc = "rb_mark" ->
        \* UPDATE replan_applications SET rolled_back = TRUE WHERE id = $1
        St(IFinished(r, "ok", "none"),
           [d EXCEPT !.apps = IF r.app \in DOMAIN @ THEN [@ EXCEPT ![r.app].rolled_back = TRUE]
                              ELSE @])


\* ---------------------------------------------------------------- requests

\* The statement a request stands at.
IStep(r, d) ==
    CASE r.pc = "evs_read" -> EvsRead(r, d)
      [] r.pc \in {"snap_read", "snap_insert"} -> createSnapshotAt(r, d)
      [] r.pc \in {"rc_read", "rc_update"} -> recalculateDayTimes(r, d)
      [] r.pc = "get_item" -> GetItem(r, d)
      [] r.pc \in {"ro_check", "ro_update"} -> reorderItemsAt(r, d)
      [] r.pc = "tp_update" -> TogglePinUpdate(r, d)
      [] r.pc \in {"st_get", "st_update"} -> setStartTimeAt(r, d)
      [] r.pc \in {"rm_get", "rm_delete"} -> removeItemAt(r, d)
      [] r.pc \in {"ad_read", "ad_insert"} -> addItemAt(r, d)
      [] r.pc = "g_read" -> GenerateRead(r, d)
      [] r.pc \in {"g_delete", "g_insert", "g_upsert"} -> saveItinerary(r, d)
      [] r.pc \in {"ev_read", "ev_insert", "ev_trigger", "ev_get"} -> ingestEventAt(r, d)
      [] r.pc \in {"p_read", "p_save"} -> generateProposalsAt(r, d)
      [] r.pc \in {"a_remove", "a_rep_del", "a_rep_ins", "a_move", "a_add", "a_order"} ->
            applyChanges(r, d)
      [] r.pc \in {"a_read", "a_begin", "a_version", "a_app", "a_trigger", "a_commit",
                   "a_rollback"} -> applyProposalAt(r, d)
      [] r.pc \in {"rv_read", "rv_delete", "rv_insert", "rv_version", "rv_get"} ->
            rollbackToVersionAt(r, d)
      [] r.pc \in {"rb_check", "rb_mark"} -> rollbackReplanAt(r, d)
      [] OTHER -> Return(r, d)

\* The positions that are a call of query(); the others only return.
StoreCall(pc) == pc \notin {"ed_return", "g_return", "done", "idle"}

RECURSIVE Run(_, _)
\* The request r.r after a statement that stood at pc: one store call fewer is
\* left before the one that is rejected.
Counted(s, pc) ==
    IF s.r.pc # "done" /\ s.r.fail > 0 /\ StoreCall(pc)
    THEN St([s.r EXCEPT !.fail = @ - 1], s.d) ELSE s

Resume(s) == Run(s.r, s.d)

\* A request from its position to its response with no other request in
\* between. r.fail counts the store calls that succeed before one is rejected
\* (none is when it is negative).
Run(r, d) ==
    IF r.pc = "done" THEN St(r, d)
    ELSE IF r.fail = 0 /\ StoreCall(r.pc)
    THEN Resume(IThrow([r EXCEPT !.fail = 0 - 1], d, "StoreError"))
    ELSE Resume(Counted(IStep(r, d), r.pc))

IQuiescent == \A q \in Procs : ireq[q].pc \in {"idle", "done"}

\* The tables and the request after a step s of request p.
Store(p, s) ==
    /\ ireq' = [ireq EXCEPT ![p] = s.r]
    /\ itineraries' = s.d.itin
    /\ itinerary_items' = s.d.items
    /\ itinerary_versions' = s.d.versions
    /\ event_signals' = s.d.events
    /\ replan_triggers' = s.d.triggers
    /\ replan_proposals' = s.d.proposals
    /\ replan_applications' = s.d.apps
    /\ uuids' = s.d.uuids
    /\ UNCHANGED <<now, bvars, providers>>

\* A request served from start to response while nothing else runs.
Serve(r) == IQuiescent /\ Store(1, Run(r, DB))

Ties == {"first", "last"}
NoFail == {0 - 1}
MaxFailPoint == 12
FailPoints == 0..MaxFailPoint
PoiLists == {<<1, 2, 3>>}
StartTimes == {600, 1410}
MaxAffected == 1

\* The orders of the ids of S.
Orders(S) ==
    {ids \in [1..Cardinality(S) -> S] : \A a \in S : \E n \in DOMAIN ids : ids[n] = a}

\* What a caller can send to reorderItems for a day: some of the day's items in
\* some order, or an id that is not the day's.
ReorderInputs(day) ==
    LET S == {a \in DOMAIN itinerary_items : itinerary_items[a].day = day}
    IN UNION {Orders(T) : T \in SUBSET S \ {{}}} \cup {<<MaxItemIds>>}

SnapshotRoom == Len(itinerary_versions) < MaxSnapshots

\* The snapshots editor operations left.
EditSnapshots ==
    Cardinality({n \in DOMAIN itinerary_versions :
                   itinerary_versions[n].change_type
                       \in ChangeTypes \ {"generate", "edit"}})

EditRoom ==
    /\ SnapshotRoom
    /\ itineraries # 0
    /\ EditSnapshots < MaxEdits

\* POST /trips/:tripId/generate
generateItineraryOf(lists, fails) ==
    /\ SnapshotRoom
    /\ \E list \in lists, mode \in {"full", "incremental"}, preserve \in BOOLEAN,
          tie \in Ties, fail \in fails :
          /\ uuids.item + Len(list) <= MaxItemIds
          /\ Serve([IdleIReq EXCEPT
                        !.op = "generateItinerary", !.pc = "g_read",
                        !.poi_ids = list, !.mode = mode, !.preserve = preserve,
                        !.tie = tie, !.fail = fail])

\* The same for the trip's usual selection of POIs.
generateItinerary(fails) == generateItineraryOf(PoiLists, fails)

\* POST /trips/:tripId/days/:day/items/reorder
reorderItems(fails) ==
    /\ EditRoom
    /\ \E day \in 1..numDays, tie \in Ties, fail \in fails :
          \E ids \in ReorderInputs(day) :
             Serve([IdleIReq EXCEPT
                        !.op = "reorder", !.pc = "ro_check",
                        !.day = day, !.ids = ids, !.tie = tie, !.fail = fail])

\* PATCH /trips/:tripId/items/:itemId/pin
togglePin(fails) ==
    /\ EditRoom
    /\ \E item \in DOMAIN itinerary_items, pinned \in BOOLEAN, fail \in fails :
          Serve([IdleIReq EXCEPT
                     !.op = "togglePin", !.pc = "tp_update",
                     !.item = item, !.pinned = pinned, !.fail = fail])

\* PATCH /trips/:tripId/items/:itemId/start-time
setStartTime(fails) ==
    /\ EditRoom
    /\ \E item \in DOMAIN itinerary_items, t \in StartTimes, tie \in Ties, fail \in fails :
          Serve([IdleIReq EXCEPT
                     !.op = "setStartTime", !.pc = "st_get",
                     !.item = item, !.t = t, !.tie = tie, !.fail = fail])

\* DELETE /trips/:tripId/items/:itemId
removeItem(fails) ==
    /\ EditRoom
    /\ \E item \in DOMAIN itinerary_items, tie \in Ties, fail \in fails :
          Serve([IdleIReq EXCEPT
                     !.op = "removeItem", !.pc = "rm_get",
                     !.item = item, !.tie = tie, !.fail = fail])

\* POST /trips/:tripId/days/:day/items
addItem(fails) ==
    /\ EditRoom
    /\ uuids.item < MaxItemIds
    /\ \E day \in 1..numDays, t \in {NoTime, 600}, tie \in Ties, fail \in fails :
          Serve([IdleIReq EXCEPT
                     !.op = "addItem", !.pc = "ad_read",
                     !.day = day, !.poi = 1, !.t = t, !.tie = tie, !.fail = fail])

\* POST /trips/:tripId/events/weather, and EventMonitorService.ingestClosureEvent
ingestEvent(fails) ==
    /\ Cardinality(DOMAIN event_signals) < MaxEvents
    /\ \E etype \in {"weather", "closure"}, severity \in {"high", "medium", "low"},
          condition \in {"heavy_rain", "wind"}, tie \in Ties, fail \in fails :
          \E S \in SUBSET DOMAIN itinerary_items :
             /\ Cardinality(S) <= MaxAffected
             /\ etype = "closure" => condition = "wind"
             /\ Serve([IdleIReq EXCEPT
                           !.op = "ingestEvent", !.pc = "ev_read",
                           !.etype = etype, !.severity = severity,
                           !.condition = condition,
                           !.affected = AffectedSeq(itinerary_items, S, tie),
                           !.tie = tie, !.fail = fail])

\* POST /trips/:tripId/replan/propose
generateProposalsOf(counts, fails) ==
    /\ uuids.proposal + 3 <= MaxProposals
    /\ uuids.item + MaxAffected <= MaxItemIds
    /\ \E trigger \in DOMAIN replan_triggers, alt \in {0, IndoorPoi}, tie \in Ties,
          options_count \in counts, fail \in fails :
          Serve([IdleIReq EXCEPT
                     !.op = "generateProposals", !.pc = "p_read",
                     !.trigger = trigger, !.alt = alt, !.max = options_count,
                     !.tie = tie, !.fail = fail])

\* The same with options_count left out of the body: maxProposals is 3.
generateProposals(fails) == generateProposalsOf({3}, fails)

\* POST /trips/:tripId/replan/apply. Which pooled client served the statements
\* after BEGIN only shows at ROLLBACK, so held is drawn for the requests with a
\* rejected store call; the version store's CHECK is drawn for the others.
applyProposal(fails) ==
    /\ SnapshotRoom
    /\ \E proposal \in DOMAIN replan_proposals, tie \in Ties, held \in BOOLEAN,
          checked \in BOOLEAN, fail \in fails :
          /\ fail < 0 => held
          /\ fail >= 0 => ~checked
          /\ Serve([IdleIReq EXCEPT
                        !.op = "applyProposal", !.pc = "a_read",
                        !.proposal = proposal, !.tie = tie, !.held = held,
                        !.checked = checked, !.fail = fail])

\* POST /trips/:tripId/replan/rollback
rollbackReplanOf(apps, fails) ==
    \E app \in apps, tie \in Ties, fail \in fails :
        Serve([IdleIReq EXCEPT
                   !.op = "rollbackReplan", !.pc = "rb_check",
                   !.app = app, !.tie = tie, !.fail = fail])

rollbackReplan(fails) ==
    SnapshotRoom /\ rollbackReplanOf(DOMAIN replan_applications, fails)

\* POST /trips/:tripId/versions/:version/rollback
rollbackToVersion(fails) ==
    /\ SnapshotRoom /\ itineraries # 0
    /\ \E target \in 0..itineraries, tie \in Ties, fail \in fails :
          Serve([IdleIReq EXCEPT
                     !.op = "rollbackToVersion", !.pc = "rv_read",
                     !.target = target, !.tie = tie, !.fail = fail])

\* Time passes once a proposal was applied, which ages its rollback window.
Tick ==
    /\ IQuiescent
    /\ replan_applications # <<>>
    /\ now < MaxTicks * TickMinutes
    /\ now' = now + TickMinutes
    /\ UNCHANGED <<tables, uuids, ireq, bvars, providers>>

\* The editor, the generator and the version service, one request at a time,
\* every store call answered.
ItinSeqNext ==
    \/ generateItinerary(NoFail)
    \/ reorderItems(NoFail)
    \/ togglePin(NoFail)
    \/ setStartTime(NoFail)
    \/ removeItem(NoFail)
    \/ addItem(NoFail)
    \/ rollbackToVersion(NoFail)

ItinSeq == Init /\ [][ItinSeqNext]_vars

\* Events and replanning on a trip that is generated and edited, one request
\* at a time, every store call answered.
ReplanEditRoom == EditSnapshots < MaxReplanEdits

ReplanSeqNext ==
    \/ generateItinerary(NoFail)
    \/ ReplanEditRoom /\ togglePin(NoFail)
    \/ ReplanEditRoom /\ setStartTime(NoFail)
    \/ ReplanEditRoom /\ removeItem(NoFail)
    \/ ingestEvent(NoFail)
    \/ generateProposals(NoFail)
    \/ applyProposal(NoFail)
    \/ rollbackReplan(NoFail)
    \/ Tick

ReplanSeq == Init /\ [][ReplanSeqNext]_vars

\* The requests of the editor on the items as they are.
EditRequests ==
    {[IdleIReq EXCEPT !.op = "togglePin", !.pc = "tp_update",
                      !.item = item, !.pinned = pinned] :
        item \in DOMAIN itinerary_items, pinned \in BOOLEAN}
    \cup {[IdleIReq EXCEPT !.op = "setStartTime", !.pc = "st_get",
                           !.item = item, !.t = t, !.tie = tie] :
        item \in DOMAIN itinerary_items, t \in StartTimes, tie \in Ties}
    \cup {[IdleIReq EXCEPT !.op = "removeItem", !.pc = "rm_get",
                           !.item = item, !.tie = tie] :
        item \in DOMAIN itinerary_items, tie \in Ties}
    \cup UNION {{[IdleIReq EXCEPT !.op = "reorder", !.pc = "ro_check",
                                  !.day = day, !.ids = ids, !.tie = tie] :
                    ids \in ReorderInputs(day), tie \in Ties} : day \in 1..numDays}

\* A request of the editor arrives on connection p, which has none in hand
\* and has made none of the editor yet.
editorRequest(p) ==
    /\ itineraries # 0
    /\ ireq[p].pc \in {"idle", "done"}
    /\ ireq[p].op \in {"none", "generateItinerary"}
    /\ \E r \in EditRequests : ireq' = [ireq EXCEPT ![p] = r]
    /\ UNCHANGED <<tables, uuids, now, bvars, providers>>

\* The request of connection p runs to its next await: one statement, one
\* store call at most.
editorStep(p) ==
    /\ ireq[p].pc \notin {"idle", "done"}
    /\ Store(p, IStep(ireq[p], DB))

\* Two editor requests on a trip that is generated once, the statements of
\* the one interleaved with those of the other between their awaits.
ItinConcNext ==
    \/ itineraries = 0 /\ generateItinerary(NoFail)
    \/ \E p \in Procs : editorRequest(p)
    \/ \E p \in Procs : editorStep(p)

ItinConc == Init /\ [][ItinConcNext]_vars

\* Proposals asked for, with every options_count the route lets in (1 to 5), on a trip
\* that is generated once and whose items are pinned and unpinned.
ReplanScoreNext ==
    \/ itineraries = 0 /\ generateItinerary(NoFail)
    \/ ReplanEditRoom /\ togglePin(NoFail)
    \/ ingestEvent(NoFail)
    \/ generateProposalsOf(1..5, NoFail)

ReplanScore == Init /\ [][ReplanScoreNext]_vars

\* The generator on selections of POIs one of which is too long for the daily
\* window (5) or closed on the trip's second day and closing early on the
\* others (6), on a trip whose items are pinned and moved in between.
GenDaysNext ==
    \/ generateItineraryOf({<<1, 2, 3>>, <<5, 2, 1>>, <<6, 6, 1>>, <<3, 6, 1>>}, NoFail)
    \/ togglePin(NoFail)
    \/ setStartTime(NoFail)

GenDays == Init /\ [][GenDaysNext]_vars

\* Replans applied and rolled back on a trip that is generated once, one
\* request at a time, every store call answered. A rollback of an application
\* is also asked for once the last snapshot the trip has room for is written.
ReplanRollbackNext ==
    \/ itineraries = 0 /\ generateItinerary(NoFail)
    \/ ingestEvent(NoFail)
    \/ generateProposals(NoFail)
    \/ applyProposal(NoFail)
    \/ rollbackReplan(NoFail)
    \/ ~SnapshotRoom /\ rollbackReplanOf(DOMAIN replan_applications, NoFail)
    \/ Tick

ReplanRollback == Init /\ [][ReplanRollbackNext]_vars

\* The editor on a generated trip, one request at a time, where one store call
\* of an editor operation may be rejected. The editor requests followed are
\* those that find the items as the latest snapshot recorded them; after a
\* request that left them otherwise the trip is generated anew.
Saved ==
    /\ itinerary_versions # <<>>
    /\ itinerary_versions[Len(itinerary_versions)].snapshot = itinerary_items

ItinFailNext ==
    \/ generateItinerary(NoFail)
    \/ Saved /\ togglePin(NoFail \cup FailPoints)
    \/ Saved /\ removeItem(NoFail \cup FailPoints)

ItinFail == Init /\ [][ItinFailNext]_vars

\* Replanning, one request at a time, where one store call of an applyProposal
\* may be rejected.
ReplanFailNext ==
    \/ generateItinerary(NoFail)
    \/ ingestEvent(NoFail)
    \/ generateProposals(NoFail)
    \/ applyProposal(NoFail \cup FailPoints)

ReplanFail == Init /\ [][ReplanFailNext]_vars


\* ---------------------------------------------------------------- claims C11..C20

\* The request the last step served.
Served == ireq[1]

\* C11: the version numbers of a trip's snapshots strictly increase in the
\* order the snapshots were created, so no number occurs twice.
C11_SnapshotVersionsIncrease ==
    \A m, n \in DOMAIN itinerary_versions :
        m < n => itinerary_versions[m].version < itinerary_versions[n].version

\* The highest version among the snapshots.
MaxSnapshotVersion ==
    CHOOSE v \in {itinerary_versions[n].version : n \in DOMAIN itinerary_versions} :
        \A n \in DOMAIN itinerary_versions : itinerary_versions[n].version <= v

\* C12: once an editor operation, generateItinerary, applyProposal,
\* rollbackToVersion or rollbackReplan has completed, the highest version among
\* the snapshots is the itinerary's current version.
C12_LatestSnapshotIsCurrent ==
    (/\ Served.res = "ok"
     /\ Served.op \in {"reorder", "togglePin", "setStartTime", "addItem", "removeItem",
                       "generateItinerary", "applyProposal", "rollbackToVersion",
                       "rollbackReplan"})
    => /\ itinerary_versions # <<>>
       /\ MaxSnapshotVersion = itineraries

\* The pinned items of the state a step starts in are still there after it,
\* on the same day with the same start and end.
PinnedKept ==
    \A a \in DOMAIN itinerary_items :
        itinerary_items[a].is_pinned =>
            /\ a \in DOMAIN itinerary_items'
            /\ itinerary_items'[a].day = itinerary_items[a].day
            /\ itinerary_items'[a].start_time = itinerary_items[a].start_time
            /\ itinerary_items'[a].end_time = itinerary_items[a].end_time

\* C13: a generateItinerary on a trip that has items, in either mode and with
\* preserve_pinned on or off, leaves every pinned item in place with its day,
\* start and end.
C13_GenerateKeepsPinned ==
    [][(Served'.op = "generateItinerary" /\ Served'.res = "ok") => PinnedKept]_vars

ItemsOfDay(day) == {a \in DOMAIN itinerary_items : itinerary_items[a].day = day}

\* C15: with no operation in progress, the order values of a day with n items
\* are exactly 0..n-1, each once.
C15_OrdersContiguous ==
    IQuiescent =>
        \A day \in DaysOf(itinerary_items) :
            /\ {itinerary_items[a].order : a \in ItemsOfDay(day)}
                   = 0..(Cardinality(ItemsOfDay(day)) - 1)
            /\ \A a, b \in ItemsOfDay(day) :
                   itinerary_items[a].order = itinerary_items[b].order => a = b

\* C16: with no operation in progress, no item of a day starts before the
\* item before it in order has ended.
C16_NoOverlapInOrder ==
    IQuiescent =>
        \A day \in DaysOf(itinerary_items) : \A a, b \in ItemsOfDay(day) :
            itinerary_items[a].order < itinerary_items[b].order =>
                itinerary_items[a].end_time <= itinerary_items[b].start_time


\* The items, the version, the applications and the triggers are what they
\* were before the step.
ApplyLeftNoTrace ==
    /\ itinerary_items' = itinerary_items
    /\ itineraries' = itineraries
    /\ replan_applications' = replan_applications
    /\ replan_triggers' = replan_triggers

ReplanSnapshots == SelectSeq(itinerary_versions, LAMBDA v : v.change_type = "replan")

\* What a client sees of an item.
Seen(item) ==
    [id |-> item.id, day |-> item.day, order |-> item.order,
     start_time |-> item.start_time, end_time |-> item.end_time,
     is_pinned |-> item.is_pinned]

SeenItems(items) == {Seen(items[a]) : a \in DOMAIN items}

C30_GenerateBumpsVersion ==
    [][(Served'.op = "generateItinerary" /\ Served'.res = "ok")
       => itineraries' = itineraries + 1]_vars

\* The operations of the editor.
EditorOps == {"reorder", "togglePin", "setStartTime", "removeItem", "addItem"}

\* C29: an editor operation that reports success has added exactly one snapshot,
\* and the snapshot's change_type names the operation.
C29_EditLeavesOneSnapshot ==
    [][(Served'.op \in EditorOps /\ Served'.res = "ok")
       => /\ Len(itinerary_versions') = Len(itinerary_versions) + 1
          /\ SubSeq(itinerary_versions', 1, Len(itinerary_versions)) = itinerary_versions
          /\ itinerary_versions'[Len(itinerary_versions')].change_type
                 = ChangeTypeOf(Served')]_vars

\* C28: a reorder whose ids are not a permutation of all the items of the day
\* (an id of another day, an id twice, or only some of the day's items) ends
\* with a Validation error and leaves every item as it was.
C28_ReorderNeedsPermutation ==
    [][(/\ Served'.op = "reorder"
        /\ ~(/\ {Served'.ids[n] : n \in DOMAIN Served'.ids} = ItemsOfDay(Served'.day)
             /\ Len(Served'.ids) = Cardinality(ItemsOfDay(Served'.day))))
       => /\ Served'.res = "err"
          /\ Served'.err = "ValidationError"
          /\ itinerary_items' = itinerary_items]_vars

\* C27: after a setStartTime(item, t) that succeeds the item starts at t and ends
\* its duration later, pinned or not and wherever it stands in its day.
C27_SetStartTimeSticks ==
    [][(Served'.op = "setStartTime" /\ Served'.res = "ok")
       => /\ itinerary_items'[Served'.item].start_time = Served'.t
          /\ itinerary_items'[Served'.item].end_time
                 = addMinutes(Served'.t,
                              itinerary_items'[Served'.item].duration_minutes)]_vars

\* C26: the re-flow a reorder, setStartTime, add or remove runs on a day leaves
\* every pinned item its start and end (but for the item a setStartTime names),
\* and places every unpinned item of the day at or after the end of every item
\* before it in order: the cursor never goes back.
C26_ReflowCursorAdvances ==
    [][(/\ Served'.op \in {"reorder", "setStartTime", "addItem", "removeItem"}
        /\ Served'.res = "ok")
       => /\ \A a \in DOMAIN itinerary_items :
                (/\ itinerary_items[a].is_pinned
                 /\ ~(Served'.op = "setStartTime" /\ a = Served'.item))
                => /\ a \in DOMAIN itinerary_items'
                   /\ itinerary_items'[a].start_time = itinerary_items[a].start_time
                   /\ itinerary_items'[a].end_time = itinerary_items[a].end_time
          /\ \A a, b \in {c \in DOMAIN itinerary_items' :
                            itinerary_items'[c].day = Served'.day} :
                (/\ ~itinerary_items'[b].is_pinned
                 /\ itinerary_items'[a].order < itinerary_items'[b].order)
                => itinerary_items'[a].end_time <= itinerary_items'[b].start_time]_vars

\* C24: every item starts before it ends, within one day, and its
\* duration_minutes is the time from its start to its end; no operation wraps
\* an end past midnight and a moved item keeps its duration.
C24_ItemTimesConsistent ==
    \A a \in DOMAIN itinerary_items :
        /\ itinerary_items[a].start_time < itinerary_items[a].end_time
        /\ itinerary_items[a].duration_minutes
               = itinerary_items[a].end_time - itinerary_items[a].start_time

\* The dates of the trip's range, the first and the last included.
TripDates == preferences.dates.end - preferences.dates.start + 1

\* C23: generateItinerary spreads the POIs over as many days as the trip's range
\* has dates: the POI at input index i is scheduled, if at all, on day
\* (i mod N) + 1, N being the number of dates.
C23_RoundRobinOverDates ==
    [][(Served'.op = "generateItinerary" /\ Served'.res = "ok")
       => \A a \in DOMAIN itinerary_items' :
              ~itinerary_items'[a].is_pinned
              => \E i \in DOMAIN Served'.poi_ids :
                     /\ Served'.poi_ids[i] = itinerary_items'[a].poi_id
                     /\ itinerary_items'[a].day = ((i - 1) % TripDates) + 1]_vars

\* The triggers emitted for event e.
TriggersOf(e) ==
    {g \in DOMAIN replan_triggers : replan_triggers[g].event_signal_id = e}

\* C22: an ingested event has a trigger exactly when it is a high-severity
\* heavy-rain weather event or a closure of medium or high severity, and the
\* trigger's priority is the event's severity.
C22_TriggerMatchesEvent ==
    IQuiescent =>
        \A e \in DOMAIN event_signals :
            /\ TriggersOf(e) # {}
                   <=> \/ /\ event_signals[e].event_type = "weather"
                          /\ event_signals[e].severity = "high"
                          /\ event_signals[e].condition = "heavy_rain"
                       \/ /\ event_signals[e].event_type = "closure"
                          /\ event_signals[e].severity \in {"medium", "high"}
            /\ \A g \in TriggersOf(e) :
                   replan_triggers[g].priority = event_signals[e].severity


Generated ==
    [DB EXCEPT !.itin = 1, !.items = itinerary_versions[1].snapshot,
               !.versions = <<itinerary_versions[1]>>]

\* The request that ended as f, as it arrived.
AsArrived(f, tie) ==
    [IdleIReq EXCEPT
        !.op = f.op,
        !.pc = CASE f.op = "togglePin" -> "tp_update"
                 [] f.op = "setStartTime" -> "st_get"
                 [] f.op = "removeItem" -> "rm_get"
                 [] OTHER -> "ro_check",
        !.item = f.item, !.day = f.day, !.ids = f.ids, !.t = f.t, !.pinned = f.pinned,
        !.tie = IF f.op = "togglePin" THEN IdleIReq.tie ELSE tie]

\* The items after request f and then request g, each served alone.
OneAfterTheOther(f, g) ==
    {Run(AsArrived(g, tg), Run(AsArrived(f, tf), Generated).d).d.items :
        tf \in Ties, tg \in Ties}

BothEdited == \A p \in Procs : ireq[p].op \in EditorOps /\ ireq[p].pc = "done"

\* C21: when two editor requests on the trip have both ended, however their
\* statements were interleaved, the items are those that one of the two serial
\* orders of the two requests leaves.
C21_EditsLinearizable ==
    BothEdited
    => itinerary_items \in OneAfterTheOther(ireq[1], ireq[2])
                               \cup OneAfterTheOther(ireq[2], ireq[1])



\* ---------------------------------------------------------------- claims C31..C40

\* C35: an applyProposal that succeeds on an itinerary at version v has added
\* one snapshot, with version v, change_type replan and the items as they were
\* before the apply; and no applyProposal ends with an error of the store
\* without that snapshot written: the version store takes change_type replan.
C35_ApplySnapshotsFirst ==
    [][(Served'.op = "applyProposal" /\ now' = now /\ ireq' # ireq)
       => /\ Served'.res = "ok"
             => /\ Len(itinerary_versions') = Len(itinerary_versions) + 1
                /\ itinerary_versions'[Len(itinerary_versions')]
                      = [version |-> itineraries, change_type |-> "replan",
                         snapshot |-> itinerary_items]
          /\ (Served'.res = "err" /\ Served'.err = "StoreError")
             => Len(itinerary_versions') = Len(itinerary_versions) + 1]_vars


\* The proposal has a replan_applications row.
Applied(proposal) ==
    \E a \in DOMAIN replan_applications : replan_applications[a].proposal_id = proposal

ReferredItems(changes) ==
    {changes.removed_items[n].item_id : n \in DOMAIN changes.removed_items}
    \cup {changes.replaced_items[n].old_item_id : n \in DOMAIN changes.replaced_items}
    \cup {changes.moved_items[n].item_id : n \in DOMAIN changes.moved_items}

Meets(from, minutes, item) ==
    from < item.end_time /\ item.start_time < from + minutes

\* C34: in every proposal generateProposals saves, the slot given to each moved
\* item (new_time, for the item's duration) lies inside the trip's daily window
\* and meets neither an item that stays on the target day, pinned or not, nor
\* the slot of another item the proposal moves to that day.
C34_MoveSlotsAreFree ==
    [][(Served'.op = "generateProposals" /\ ireq' # ireq)
       => \A q \in DOMAIN replan_proposals' \ DOMAIN replan_proposals :
             LET moved == replan_proposals'[q].changes.moved_items
                 ids == {moved[n].item_id : n \in DOMAIN moved}
                 dur(n) == itinerary_items[moved[n].item_id].duration_minutes
             IN \A n \in DOMAIN moved :
                   /\ preferences.daily_time_window.start <= moved[n].new_time
                   /\ moved[n].new_time + dur(n) <= preferences.daily_time_window.end
                   /\ \A a \in DOMAIN itinerary_items \ ids :
                         itinerary_items[a].day = moved[n].new_day
                         => ~Meets(moved[n].new_time, dur(n), itinerary_items[a])
                   /\ \A k \in DOMAIN moved \ {n} :
                         moved[k].new_day = moved[n].new_day
                         => \/ moved[k].new_time + dur(k) <= moved[n].new_time
                            \/ moved[n].new_time + dur(n) <= moved[k].new_time]_vars

\* The score the claim gives a proposal, in hundredths, before it is clamped.
ClaimedScore(changes, impact) ==
    100 - impact.disruption_score \div 2
        + (IF impact.cost_change < 0 THEN 20 ELSE 0)
        - (IF impact.cost_change > 0 THEN 10 ELSE 0)
        - (IF impact.time_change_minutes > 60 \/ impact.time_change_minutes < 0 - 60
           THEN 10 ELSE 0)

ClaimedDisruption(changes) ==
    LET sum == 30 * Len(changes.replaced_items) + 20 * Len(changes.moved_items)
               + 40 * Len(changes.removed_items) + 10 * Len(changes.added_items)
    IN IF sum > 100 THEN 100 ELSE sum

\* C33: every proposal a generateProposals saves has disruption_score
\* min(1, 0.3 replaced + 0.2 moved + 0.4 removed + 0.1 added) and score
\* 1 - 0.5 disruption_score, + 0.2 for a falling cost, - 0.1 for a rising cost,
\* - 0.1 for a time change of more than 60 minutes, clamped to [0, 1]; one
\* replacement with a cost that does not rise has disruption_score 0.3 and a
\* score of 0.5 at least; and the proposals returned are at most maxProposals,
\* by descending score, none of those left out scoring higher.
C33_ScoresAsSpecified ==
    [][(Served'.op = "generateProposals" /\ Served'.res = "ok" /\ ireq' # ireq)
       => LET new == DOMAIN replan_proposals' \ DOMAIN replan_proposals
              returned == Served'.returned
              score(q) == replan_proposals'[q].score
          IN /\ \A q \in new :
                   LET changes == replan_proposals'[q].changes
                       impact == replan_proposals'[q].impact
                       claimed == ClaimedScore(changes, impact)
                   IN /\ impact.disruption_score = ClaimedDisruption(changes)
                      /\ score(q) = IF claimed < 0 THEN 0
                                    ELSE IF claimed > 100 THEN 100 ELSE claimed
                      /\ (/\ Len(changes.replaced_items) = 1
                          /\ changes.moved_items = <<>> /\ changes.removed_items = <<>>
                          /\ changes.added_items = <<>>
                          /\ impact.cost_change <= 0)
                         => (impact.disruption_score = 30 /\ score(q) >= 50)
             /\ Len(returned) <= Served'.max
             /\ \A n \in DOMAIN returned : returned[n] \in new
             /\ \A n, m \in DOMAIN returned :
                   n < m => returned[n] # returned[m] /\ score(returned[n]) >= score(returned[m])
             /\ \A q \in new :
                   (\A n \in DOMAIN returned : returned[n] # q)
                   => /\ Len(returned) = Served'.max
                      /\ \A n \in DOMAIN returned : score(returned[n]) >= score(q)]_vars

\* A generateProposals has returned fewer proposals than it saved, and one of
\* those saved is a single replacement whose cost falls and whose score was
\* clamped to 1.
C33_Witness ==
    /\ Served.op = "generateProposals" /\ Served.res = "ok"
    /\ Served.returned # <<>>
    /\ Len(Served.returned) < Cardinality(DOMAIN replan_proposals)
    /\ \E q \in DOMAIN replan_proposals :
          /\ Len(replan_proposals[q].changes.replaced_items) = 1
          /\ replan_proposals[q].impact.cost_change < 0
          /\ ClaimedScore(replan_proposals[q].changes, replan_proposals[q].impact) > 100
          /\ replan_proposals[q].score = 100

\* The weekday's hours of the POI of an item, on the item's day.
HoursOf(item) ==
    pois[item.poi_id].hours[((preferences.dates.start + item.day - 1) % 7) + 1]

\* The items of a day that were placed before the item: the pinned ones kept
\* from the itinerary before, and the unpinned ones of lower order.
PlacedBefore(items, a) ==
    {b \in DOMAIN items \ {a} :
        /\ items[b].day = items[a].day
        /\ items[b].is_pinned \/ items[b].order < items[a].order}

\* C31: after a generateItinerary that succeeds, every item that is not pinned
\* starts at or after the daily window's start and its POI's opening time of
\* that weekday, ends at or before the POI's closing time and the window's end,
\* is of a POI that is open that day, and meets no item placed before it on its
\* day.
C31_PlacedInsideHours ==
    [][(Served'.op = "generateItinerary" /\ Served'.res = "ok" /\ ireq' # ireq)
       => \A a \in DOMAIN itinerary_items' :
             LET item == itinerary_items'[a]
             IN ~item.is_pinned
                => /\ item.start_time >= preferences.daily_time_window.start
                   /\ item.end_time <= preferences.daily_time_window.end
                   /\ ~HoursOf(item).closed
                   /\ HoursOf(item).open # NoTime => item.start_time >= HoursOf(item).open
                   /\ HoursOf(item).close # NoTime => item.end_time <= HoursOf(item).close
                   /\ \A b \in PlacedBefore(itinerary_items', a) :
                         ~Meets(item.start_time, item.duration_minutes,
                                itinerary_items'[b])]_vars


RECURSIVE SkippingOnly(_, _, _, _)
\* The POIs of a day's selection that are placed when a POI that is closed or
\* does not fit is passed over and the cursor is left where it was: the
\* candidate starts at the later of the cursor and the opening time, after the
\* buffer and, behind an item, the travel time.
SkippingOnly(dayNum, dayPois, cursor, behind) ==
    IF dayPois = <<>> THEN <<>>
    ELSE LET hours == pois[dayPois[1]].hours[((preferences.dates.start + dayNum - 1) % 7) + 1]
             from == IF hours.open # NoTime /\ hours.open > cursor
                     THEN hours.open ELSE cursor
             candidate_start == from + DEFAULT_BUFFER_MINUTES
                                + (IF behind THEN DEFAULT_TRAVEL_TIME_PLACEHOLDER ELSE 0)
             candidate_end == candidate_start + pois[dayPois[1]].avg_duration_minutes
         IN IF \/ hours.closed
               \/ hours.close # NoTime /\ candidate_end > hours.close
               \/ candidate_end > preferences.daily_time_window.end
            THEN SkippingOnly(dayNum, Tail(dayPois), cursor, behind)
            ELSE <<dayPois[1]>> \o SkippingOnly(dayNum, Tail(dayPois), candidate_end, TRUE)

\* The POIs of the items of a day, in the items' order.
PlacedPois(items, dayNum) ==
    LET on == {a \in DOMAIN items : items[a].day = dayNum}
    IN [n \in 1..Cardinality(on) |->
           items[CHOOSE a \in on : items[a].order = n - 1].poi_id]

\* C32: after a generateItinerary that succeeds, on every day that keeps no
\* pinned item, the POIs placed are those of the day's selection that fit when
\* each POI that does not fit is skipped alone, the cursor unchanged: a POI
\* that does not fit never keeps a later POI that fits from being placed.
C32_SkipsOnlyTheMisfit ==
    [][(Served'.op = "generateItinerary" /\ Served'.res = "ok" /\ ireq' # ireq)
       => \A dayNum \in 1..numDays :
             (\A a \in DOMAIN itinerary_items' :
                 itinerary_items'[a].day = dayNum => ~itinerary_items'[a].is_pinned)
             => PlacedPois(itinerary_items', dayNum)
                = SkippingOnly(dayNum, distributePOIs(Served'.poi_ids, 1, dayNum - 1),
                               preferences.daily_time_window.start, FALSE)]_vars


\* C36: a step of cancelBooking takes its booking from confirmed to canceled
\* only when the adapter's cancelBooking call of that request has returned;
\* and no step of a cancelBooking whose adapter call failed, or whose
\* booking's provider is not in the registry, changes the booking's status or
\* appends a history row.
C36_CancelsAfterTheAdapter ==
    [][\A p \in Procs, b \in DOMAIN bookings :
          (/\ req[p].op = "cancel" /\ req[p].pc # "done" /\ req[p].bid = b
           /\ req'[p] # req[p])
          => /\ (bookings[b].status = "confirmed" /\ bookings'[b].status = "canceled")
                => req[p].adapter = "ok"
             /\ (req[p].provider_id \notin providers \/ req'[p].adapter = "throw")
                => /\ bookings'[b].status = bookings[b].status
                   /\ booking_state_history' = booking_state_history]_vars

\* C37: every provider_item_id that retryBooking has sent to the adapter for a
\* booking is one that the createBooking of that booking sent: the retry asks
\* for the provider item the original request asked for.
C37_RetryAsksForTheSameItem ==
    \A b \in DOMAIN bookings :
        adapterCreateCalls[b].provider_item_id.retry
            \subseteq adapterCreateCalls[b].provider_item_id.create

====
